---- MODULE Spec2Model ----
(***************************************************************************)
(* A model of mne_features/univariate.py: the registry of univariate       *)
(* feature kernels and the kernels themselves, as operators over small     *)
(* integer-valued signal matrices.                                         *)
(*                                                                         *)
(* Numbers.  A float is a record [k, n, d, r]:                             *)
(*   k = "num"   the exact value (n/d) * sqrt(r): d > 0, n/d in lowest     *)
(*               terms, r >= 1 square-free (r = 1: a rational);            *)
(*   k = "real"  a finite real that is not represented exactly (a result   *)
(*               of log, or a sum of unlike roots); n is its sign          *)
(*               (-1, 0, 1) when the sign is known and 2 when it is not;   *)
(*               with (d, r) # (1, 1) it is the logarithm of r/d;          *)
(*   k = "nan", "inf", "-inf"  the IEEE-754 special values;                *)
(*   k = "nonfin" a non-finite value (nan or an infinity) whose kind the   *)
(*               model does not determine;                                 *)
(*   k = "unk"   a float of which the model does not determine whether it  *)
(*               is finite.                                                *)
(* Arithmetic is exact on "num": rounding and overflow of binary64 are not *)
(* modelled, signed zeros are not distinguished.                           *)
(*                                                                         *)
(* A call ends in an outcome [st, exc, val]: st = "ok" with the returned   *)
(* flat vector val, or st = "raise" with the exception's name exc.         *)
(***************************************************************************)
EXTENDS Integers, Sequences, FiniteSets, TLC

VARIABLES
    build,     \* "numba": the kernels under @nb.jit are compiled; "numba_object": so
               \* are they, but for compute_higuchi_fd; "mock": plain Python
    sfreq,     \* the sampling rate the registry was built for
    registry,  \* get_univariate_funcs(sfreq): name -> [func, bound]
    data,      \* the signal matrix: a sequence of channels, each a sequence of samples
    spectrum,  \* what utils.power_spectrum returns for (sfreq, data): [ps, freqs]
    shared,    \* the arrays made at import that every call sees: the default freq_bands
    call,      \* the last call: [name, args]
    out,       \* its outcome
    loc        \* the local values of the last call that the kernel computed on the way

vars == <<build, sfreq, registry, data, spectrum, shared, call, out, loc>>

----------------------------------------------------------------------------
(* Integer helpers *)

Abs(x) == IF x < 0 THEN -x ELSE x

Sign(x) == IF x > 0 THEN 1 ELSE IF x < 0 THEN -1 ELSE 0

Min2(a, b) == IF a <= b THEN a ELSE b

Max2(a, b) == IF a >= b THEN a ELSE b

RECURSIVE Gcd(_, _)
Gcd(a, b) == IF b = 0 THEN Abs(a) ELSE Gcd(b, a % b)

\* Python's floor(a / b) for integers a and b # 0
FloorDiv(a, b) == IF b > 0 THEN a \div b ELSE (-a) \div (-b)

\* sums, maxima and minima split their range in halves (the recursion stays shallow)
RECURSIVE SumRange(_, _, _)
SumRange(s, lo, hi) ==
    IF lo > hi THEN 0
    ELSE IF lo = hi THEN s[lo]
    ELSE LET mid == (lo + hi) \div 2
         IN  SumRange(s, lo, mid) + SumRange(s, mid + 1, hi)

SumSeq(s) == SumRange(s, 1, Len(s))

----------------------------------------------------------------------------
(* Floats *)

\* the largest s with s*s dividing r (r >= 1), searched upwards from s
RECURSIVE SquarePartFrom(_, _, _)
SquarePartFrom(r, s, best) ==
    IF s * s > r THEN best
    ELSE SquarePartFrom(r, s + 1, IF r % (s * s) = 0 THEN s ELSE best)

SquarePart(r) == SquarePartFrom(r, 2, 1)

\* (n/d) * sqrt(r) for a square-free r, d # 0: in lowest terms, the sign on n
Norm(n, d, r) ==
    LET g == Gcd(Abs(n), Abs(d))
        s == IF d < 0 THEN -1 ELSE 1
    IN  [k |-> "num", n |-> s * (n \div g), d |-> s * (d \div g),
         r |-> IF n = 0 THEN 1 ELSE r]

Num(n, d, r) ==
    LET sq == SquarePart(r)
    IN  Norm(n * sq, d, r \div (sq * sq))

Rat(n, d) == Num(n, d, 1)

RInt(n) == [k |-> "num", n |-> n, d |-> 1, r |-> 1]

NaN == [k |-> "nan", n |-> 0, d |-> 1, r |-> 1]

PInf == [k |-> "inf", n |-> 0, d |-> 1, r |-> 1]

NInf == [k |-> "-inf", n |-> 0, d |-> 1, r |-> 1]

NonFin == [k |-> "nonfin", n |-> 0, d |-> 1, r |-> 1]

Unk == [k |-> "unk", n |-> 0, d |-> 1, r |-> 1]

Real(sgn) == [k |-> "real", n |-> sgn, d |-> 1, r |-> 1]

IsFinite(x) == x.k \in {"num", "real"}

IsNonFinite(x) == x.k \in {"nan", "inf", "-inf", "nonfin"}

IsRat(x) == x.k = "num" /\ x.r = 1

\* the sign of a float: -1, 0, 1; 2 when the model does not know it; 3 for nan
SignOf(x) ==
    CASE x.k = "num" -> Sign(x.n)
      [] x.k = "real" -> x.n
      [] x.k = "inf" -> 1
      [] x.k = "-inf" -> -1
      [] x.k \in {"nonfin", "unk"} -> 2
      [] OTHER -> 3

Signed(sgn) == IF sgn > 0 THEN PInf ELSE NInf

FNeg(x) ==
    CASE x.k = "num" -> [x EXCEPT !.n = -x.n]
      [] x.k = "real" -> IF x.n = 2 THEN Real(2) ELSE Real(-x.n)
      [] x.k = "inf" -> NInf
      [] x.k = "-inf" -> PInf
      [] OTHER -> x

FAbs(x) ==
    CASE x.k = "num" -> [x EXCEPT !.n = Abs(x.n)]
      [] x.k = "real" -> IF x.n = 2 THEN Real(2) ELSE Real(Abs(x.n))
      [] x.k = "-inf" -> PInf
      [] OTHER -> x

\* the sign of a + b for two exact numbers: compares a^2 with b^2 when they pull apart
SignOfSum(a, b) ==
    LET sa == Sign(a.n)
        sb == Sign(b.n)
    IN  IF sa = 0 THEN sb
        ELSE IF sb = 0 \/ sa = sb THEN sa
        ELSE LET l == a.n * a.n * a.r * b.d * b.d
                 m == b.n * b.n * b.r * a.d * a.d
             IN  IF l = m THEN 0 ELSE IF l > m THEN sa ELSE sb

FAdd(x, y) ==
    CASE x.k = "nan" \/ y.k = "nan" -> NaN
      [] x.k = "nonfin" \/ y.k = "nonfin" -> NonFin
      [] x.k = "unk" \/ y.k = "unk" -> IF IsNonFinite(x) \/ IsNonFinite(y) THEN NonFin ELSE Unk
      [] x.k = "inf" -> IF y.k = "-inf" THEN NaN ELSE PInf
      [] x.k = "-inf" -> IF y.k = "inf" THEN NaN ELSE NInf
      [] y.k \in {"inf", "-inf"} -> y
      [] x.k = "num" /\ y.k = "num" ->
            IF x.n = 0 THEN y
            ELSE IF y.n = 0 THEN x
            ELSE IF x.r = y.r THEN Num(x.n * y.d + y.n * x.d, x.d * y.d, x.r)
            ELSE Real(SignOfSum(x, y))
      [] OTHER ->
            LET sx == SignOf(x)
                sy == SignOf(y)
            IN  IF sx = 0 THEN y
                ELSE IF sy = 0 THEN x
                ELSE IF sx = sy /\ sx # 2 THEN Real(sx) ELSE Real(2)

FSub(x, y) == FAdd(x, FNeg(y))

FMul(x, y) ==
    LET sx == SignOf(x)
        sy == SignOf(y)
    IN  CASE x.k = "nan" \/ y.k = "nan" -> NaN
          [] x.k = "unk" \/ y.k = "unk" ->
                IF IsNonFinite(x) \/ IsNonFinite(y) THEN NonFin
                ELSE IF sx = 0 \/ sy = 0 THEN RInt(0) ELSE Unk
          [] ~IsFinite(x) \/ ~IsFinite(y) ->
                IF sx = 0 \/ sy = 0 THEN NaN
                ELSE IF sx = 2 \/ sy = 2 THEN NonFin
                ELSE Signed(sx * sy)
          [] x.k = "num" /\ y.k = "num" ->
                \* sqrt r * sqrt q = g * sqrt((r/g)(q/g)), g the common divisor
                LET g == Gcd(x.r, y.r)
                IN  Norm(x.n * y.n * g, x.d * y.d, (x.r \div g) * (y.r \div g))
          [] OTHER -> IF sx = 0 \/ sy = 0 THEN RInt(0)
                      ELSE IF sx = 2 \/ sy = 2 THEN Real(2)
                      ELSE Real(sx * sy)

\* IEEE division, as numpy's arrays and scalars divide: x / 0 is nan or an infinity
FDiv(x, y) ==
    LET sx == SignOf(x)
        sy == SignOf(y)
    IN  CASE x.k = "nan" \/ y.k = "nan" -> NaN
          [] x.k = "nonfin" -> NonFin
          [] x.k = "unk" \/ ~(IsFinite(y) \/ IsNonFinite(y)) -> Unk
          [] y.k = "nonfin" -> IF IsFinite(x) THEN Unk ELSE NonFin
          \* a finite divisor that may be zero
          [] sy = 2 -> IF IsFinite(x) THEN Unk ELSE NonFin
          [] ~IsFinite(x) -> IF ~IsFinite(y) THEN NaN
                             ELSE Signed(sx * (IF sy = 0 THEN 1 ELSE sy))
          [] ~IsFinite(y) -> RInt(0)
          [] sy = 0 -> IF sx = 0 THEN NaN ELSE IF sx = 2 THEN NonFin ELSE Signed(sx)
          [] x.k = "num" /\ y.k = "num" ->
                \* sqrt r / sqrt q = sqrt((r/g)(q/g)) / (q/g), g the common divisor
                LET g == Gcd(x.r, y.r)
                IN  Norm(x.n * y.d, x.d * y.n * (y.r \div g), (x.r \div g) * (y.r \div g))
          [] OTHER -> IF sx = 0 THEN RInt(0)
                      ELSE IF sx = 2 THEN Real(2) ELSE Real(sx * sy)

\* x < y and x <= y on exact numbers
FLt(x, y) == SignOfSum(x, FNeg(y)) < 0

FLe(x, y) == SignOfSum(x, FNeg(y)) <= 0

\* sqrt of an exact rational >= 0
FSqrt(x) == IF x.n = 0 THEN RInt(0) ELSE Num(1, x.d, x.n * x.d)

\* the natural (or any base > 1) logarithm under IEEE rules: log(0) = -inf, log(x < 0) = nan
FLog(x) ==
    CASE x.k \in {"nan", "nonfin", "inf", "unk"} -> x
      [] x.k = "-inf" -> NaN
      [] SignOf(x) = 0 -> NInf
      [] SignOf(x) = -1 -> NaN
      [] SignOf(x) = 2 -> Unk
      [] x.k = "num" ->
            IF x.r # 1 THEN Real(SignOfSum(x, RInt(-1)))
            ELSE IF x.n = x.d THEN RInt(0)
            ELSE [k |-> "real", n |-> Sign(x.n - x.d), d |-> x.d, r |-> x.n]
      [] OTHER -> Real(2)

\* math.log raises ValueError ("math domain error") on these arguments
LogDomainError(x) == x.k = "-inf" \/ (IsFinite(x) /\ SignOf(x) \in {-1, 0})

Ok(v) == [st |-> "ok", exc |-> "", val |-> v]

Raise(e) == [st |-> "raise", exc |-> e, val |-> <<>>]

----------------------------------------------------------------------------
(* Sequences of samples *)

\* np.diff: x[i+1] - x[i]
Diff(x) == [i \in 1..(Len(x) - 1) |-> x[i + 1] - x[i]]

RECURSIVE MaxRange(_, _, _)
MaxRange(x, lo, hi) ==
    IF lo = hi THEN x[lo]
    ELSE LET mid == (lo + hi) \div 2
         IN  Max2(MaxRange(x, lo, mid), MaxRange(x, mid + 1, hi))

MaxSeq(x) == MaxRange(x, 1, Len(x))

MinSeq(x) == -MaxSeq([i \in 1..Len(x) |-> -x[i]])

\* np.sum of floats x[lo..hi] (pairwise)
RECURSIVE FSumRange(_, _, _)
FSumRange(x, lo, hi) ==
    IF lo > hi THEN RInt(0)
    ELSE IF lo = hi THEN x[lo]
    ELSE LET mid == (lo + hi) \div 2
         IN  FAdd(FSumRange(x, lo, mid), FSumRange(x, mid + 1, hi))

FSum(x) == FSumRange(x, 1, Len(x))

SetMin(S) == CHOOSE x \in S : \A y \in S : x <= y

\* the flat vector of a (channels x columns) result: row-major, as ndarray.ravel()
RECURSIVE Ravel(_)
Ravel(rows) == IF Len(rows) = 0 THEN <<>> ELSE rows[1] \o Ravel(Tail(rows))

----------------------------------------------------------------------------
(* The registry: get_univariate_funcs *)

\* the positional parameters without a default of each kernel of the module
RequiredParams(func) ==
    IF func \in {"compute_decorr_time", "compute_spect_hjorth_mobility",
                 "compute_spect_hjorth_complexity", "compute_power_spectrum_freq_bands",
                 "compute_spect_entropy", "compute_spect_edge_freq",
                 "compute_energy_freq_bands"}
    THEN <<"sfreq", "data">>
    ELSE <<"data">>

\* a registry entry: the kernel, and the leading arguments partial() has bound
Plain(func) == [func |-> func, bound |-> <<>>]

Partial(func, sf) == [func |-> func, bound |-> <<sf>>]

get_univariate_funcs(sf) ==
    ("mean" :> Plain("compute_mean")) @@
    ("variance" :> Plain("compute_variance")) @@
    ("std" :> Plain("compute_std")) @@
    ("ptp_amplitude" :> Plain("compute_ptp")) @@
    ("skewness" :> Plain("compute_skewness")) @@
    ("kurtosis" :> Plain("compute_kurtosis")) @@
    ("hurst_exp" :> Plain("compute_hurst_exponent")) @@
    ("decorr_time" :> Partial("compute_decorr_time", sf)) @@
    ("hjorth_mobility_spect" :> Partial("compute_spect_hjorth_mobility", sf)) @@
    ("hjorth_complexity_spect" :> Partial("compute_spect_hjorth_complexity", sf)) @@
    ("app_entropy" :> Plain("compute_app_entropy")) @@
    ("samp_entropy" :> Plain("compute_samp_entropy")) @@
    ("hjorth_mobility" :> Plain("compute_hjorth_mobility")) @@
    ("hjorth_complexity" :> Plain("compute_hjorth_complexity")) @@
    ("higuchi_fd" :> Plain("compute_higuchi_fd")) @@
    ("katz_fd" :> Plain("compute_katz_fd")) @@
    ("pow_freq_bands" :> Partial("compute_power_spectrum_freq_bands", sf)) @@
    ("zero_cross" :> Plain("compute_zero_crossings")) @@
    ("line_len" :> Plain("compute_line_length")) @@
    ("spect_entropy" :> Partial("compute_spect_entropy", sf)) @@
    ("svd_entropy" :> Plain("compute_svd_entropy")) @@
    ("svd_fisher_info" :> Plain("compute_svd_fisher_info")) @@
    ("spect_edge_freq" :> Partial("compute_spect_edge_freq", sf)) @@
    ("wavelet_coef_energy" :> Plain("compute_wavelet_coef_energy"))

\* the kernel family (section 4 of the specification) each kernel of the module implements
KernelFamily(func) ==
    CASE func \in {"compute_mean", "compute_variance", "compute_std", "compute_ptp",
                   "compute_skewness", "compute_kurtosis", "compute_zero_crossings",
                   "compute_line_length"} -> "basic_statistics"
      [] func = "compute_decorr_time" -> "decorrelation_time"
      [] func = "compute_hurst_exponent" -> "hurst"
      [] func = "compute_app_entropy" -> "app_entropy"
      [] func = "compute_samp_entropy" -> "samp_entropy"
      [] func = "compute_higuchi_fd" -> "higuchi"
      [] func = "compute_katz_fd" -> "katz"
      [] func \in {"compute_hjorth_mobility", "compute_hjorth_complexity"} -> "hjorth_time"
      [] func \in {"compute_spect_hjorth_mobility",
                   "compute_spect_hjorth_complexity"} -> "hjorth_spectral"
      [] func = "compute_power_spectrum_freq_bands" -> "band_power"
      [] func = "compute_energy_freq_bands" -> "band_energy"
      [] func = "compute_spect_entropy" -> "spectral_entropy"
      [] func = "compute_spect_edge_freq" -> "spectral_edge_frequency"
      [] func = "compute_svd_entropy" -> "svd_entropy"
      [] func = "compute_svd_fisher_info" -> "svd_fisher_info"
      [] func = "compute_wavelet_coef_energy" -> "wavelet_energy"

\* the parameters a caller of the entry must still pass
Unbound(entry) == SubSeq(RequiredParams(entry.func), Len(entry.bound) + 1,
                         Len(RequiredParams(entry.func)))

----------------------------------------------------------------------------
(* Basic statistics *)

ChannelMean(x) == FDiv(RInt(SumSeq(x)), RInt(Len(x)))

compute_mean(d) == [c \in 1..Len(d) |-> ChannelMean(d[c])]

\* np.var(ddof=1): the squared deviations from the mean, summed, over n - 1
ChannelVariance(x) ==
    LET m == ChannelMean(x)
        dev == [i \in 1..Len(x) |-> FMul(FSub(RInt(x[i]), m), FSub(RInt(x[i]), m))]
    IN  FDiv(FSum(dev), RInt(Max2(Len(x) - 1, 0)))

compute_variance(d) == [c \in 1..Len(d) |-> ChannelVariance(d[c])]

compute_ptp(d) == [c \in 1..Len(d) |-> RInt(MaxSeq(d[c]) - MinSeq(d[c]))]

\* np.sum(np.diff(np.sign(data)) != 0)
\* (mutant) only strict sign flips (-1 to 1 or 1 to -1) count
ChannelZeroCrossings_StrictFlips(x) ==
    Cardinality({i \in 1..(Len(x) - 1) : Sign(x[i]) * Sign(x[i + 1]) < 0})

\* (mutant) only the rising sign changes count
ChannelZeroCrossings_RisingOnly(x) ==
    LET sg == [i \in 1..Len(x) |-> Sign(x[i])]
        df == Diff(sg)
    IN  Cardinality({i \in 1..Len(df) : df[i] > 0})

ChannelZeroCrossings(x) ==
    LET sg == [i \in 1..Len(x) |-> Sign(x[i])]
        df == Diff(sg)
    IN  Cardinality({i \in 1..Len(df) : df[i] # 0})

compute_zero_crossings(d) == [c \in 1..Len(d) |-> RInt(ChannelZeroCrossings(d[c]))]

ChannelLineLength(x) == SumSeq([i \in 1..(Len(x) - 1) |-> Abs(Diff(x)[i])])

compute_line_length(d) == [c \in 1..Len(d) |-> RInt(ChannelLineLength(d[c]))]

----------------------------------------------------------------------------
(* Band power: compute_power_spectrum_freq_bands *)

\* Frequencies are integers, in units of 0.5 Hz.
DefaultFreqBands == <<1, 8, 16, 26, 60, 200>>

NonDecreasing(b) == \A i \in 1..(Len(b) - 1) : b[i] <= b[i + 1]

NonIncreasing(b) == \A i \in 1..(Len(b) - 1) : b[i] >= b[i + 1]

\* np.digitize(x, bins), right=False: for increasing bins the number of bins <= x
\* (so bins[i-1] <= x < bins[i]), for decreasing bins the number of bins > x... counted
\* from the far end; the caller sees ValueError for bins that are neither.
\* (mutant) right=True: bins[i-1] < x <= bins[i]
DigitizeOne_RightClosed(x, bins) ==
    IF NonDecreasing(bins)
    THEN Cardinality({i \in 1..Len(bins) : bins[i] < x})
    ELSE Len(bins) - Cardinality({i \in 1..Len(bins) : bins[i] <= x})

DigitizeOne(x, bins) ==
    IF NonDecreasing(bins)
    THEN Cardinality({i \in 1..Len(bins) : bins[i] <= x})
    ELSE Len(bins) - Cardinality({i \in 1..Len(bins) : bins[i] < x})

Digitize(xs, bins) == [i \in 1..Len(xs) |-> DigitizeOne(xs[i], bins)]

\* np.sum(ps[c, idx == j]): the sum of the row's entries whose bin index is j
BandSum(row, idx, j) ==
    FSum([i \in 1..Len(row) |-> IF idx[i] = j THEN RInt(row[i]) ELSE RInt(0)])

\* np.sum(ps, axis=-1)[c]: the denominator of the normalization
\* (mutant) the total without the first bin
TotalPower_SkipFirstBin(row) ==
    FSum([i \in 1..Len(row) |-> IF i = 1 THEN RInt(0) ELSE RInt(row[i])])

TotalPower(row) == FSum([i \in 1..Len(row) |-> RInt(row[i])])

PowFreqBandsRow(row, idx, n_freqs, normalize) ==
    [j \in 1..(n_freqs - 1) |->
        IF normalize THEN FDiv(BandSum(row, idx, j), TotalPower(row))
                     ELSE BandSum(row, idx, j)]

\* the kernel after power_spectrum has returned (ps, freqs)
compute_power_spectrum_freq_bands(ps, freqs, freq_bands, normalize) ==
    LET n_channels == Len(ps)
        n_freqs == Len(freq_bands)
        idx == Digitize(freqs, freq_bands)
    IN  IF ~NonDecreasing(freq_bands) /\ ~NonIncreasing(freq_bands) THEN Raise("ValueError")
        ELSE IF n_freqs = 0 THEN Raise("ValueError")
        ELSE Ok(Ravel([c \in 1..n_channels |->
                          PowFreqBandsRow(ps[c], idx, n_freqs, normalize)]))

----------------------------------------------------------------------------
(* Spectral entropy: compute_spect_entropy *)

\* m = np.sum(ps, axis=-1)
SpectEntropyDenominator(row) == FSum([i \in 1..Len(row) |-> RInt(row[i])])

\* ps_norm = ps[:, 1:] / m: the bins after the first, each over m
SpectEntropyNorm(row) ==
    [i \in 1..(Len(row) - 1) |-> FDiv(RInt(row[i + 1]), SpectEntropyDenominator(row))]

\* -np.sum(ps_norm * np.log2(ps_norm))
SpectEntropyValue(row) ==
    LET pn == SpectEntropyNorm(row)
    IN  FNeg(FSum([i \in 1..Len(pn) |-> FMul(pn[i], FLog(pn[i]))]))

compute_spect_entropy(ps) == Ok([c \in 1..Len(ps) |-> SpectEntropyValue(ps[c])])

----------------------------------------------------------------------------
(* Spectral edge frequency: compute_spect_edge_freq *)

\* An optional argument is <<>> (None) or <<v>>.  Frequencies are in units of 0.5 Hz, so
\* the default reference sfreq / 2 Hz is sfreq units.
RefFreq(sf, ref_freq) == IF ref_freq = <<>> THEN sf ELSE ref_freq[1]

\* _edge, in percent (the code keeps e / 100)
EdgePercents(edge) == IF edge = <<>> THEN <<50>> ELSE edge[1]

\* np.cumsum(ps, 1)[c]
CumSum(row) == [i \in 1..Len(row) |-> SumRange(row, 1, i)]

\* np.where(freqs >= _ref_freq)[0]
RefCandidates(freqs, ref) == {i \in 1..Len(freqs) : freqs[i] >= ref}

\* the value for one channel and one edge p percent, idx_ref given
EdgeFreqOne(row, freqs, idx_ref, p) ==
    LET cum == CumSum(row)
        ref_pow == SumRange(row, 1, idx_ref)
        idx == {i \in 1..Len(row) : 100 * cum[i] >= p * ref_pow}
    IN  IF idx # {} THEN RInt(freqs[SetMin(idx)]) ELSE RInt(-1)

\* the kernel after power_spectrum has returned (ps, freqs)
compute_spect_edge_freq(sf, ps, freqs, ref_freq, edge) ==
    LET ref == RefFreq(sf, ref_freq)
        percents == EdgePercents(edge)
        cand == RefCandidates(freqs, ref)
    IN  IF Len(percents) > 0 /\ cand = {} THEN Raise("IndexError")
        ELSE Ok(Ravel([c \in 1..Len(ps) |->
                         [i \in 1..Len(percents) |->
                             EdgeFreqOne(ps[c], freqs, SetMin(cand), percents[i])]]))

----------------------------------------------------------------------------
(* Autocorrelation and decorrelation time *)

Reverse(x) == [i \in 1..Len(x) |-> x[Len(x) + 1 - i]]

\* signal.fftconvolve(a, b, mode='full'): entry k (from 1) is the sum of a[i] * b[k + 1 - i]
\* (the FFT's rounding is not modelled)
ConvolveFull(a, b) ==
    [k \in 1..(Len(a) + Len(b) - 1) |->
        SumSeq([i \in 1..Len(a) |->
                   IF k + 1 - i \in 1..Len(b) THEN a[i] * b[k + 1 - i] ELSE 0])]

\* s = m - |lags| with the entries <= 0 set to 1; entry k (from 1) has lag k - 1 - m
AutocorrNorm(n_times) ==
    LET m == n_times - 1
    IN  [k \in 1..(2 * m + 1) |->
            LET sk == m - Abs(k - 1 - m) IN IF sk <= 0 THEN 1 ELSE sk]

_unbiased_autocorr(x) ==
    LET autocorr == ConvolveFull(x, Reverse(x))
        s == AutocorrNorm(Len(x))
    IN  [k \in 1..Len(autocorr) |-> FDiv(RInt(autocorr[k]), RInt(s[k]))]

\* (mutant) the slice starts one entry late: ac_channel[n_times:]
ZeroCross_FromNTimes(ac_channel, n_times) ==
    [k \in 1..(Len(ac_channel) - n_times) |-> FLe(ac_channel[n_times + k], RInt(0))]

\* zero_cross = ac_channel[(n_times - 1):] <= 0
ZeroCross(ac_channel, n_times) ==
    [k \in 1..(Len(ac_channel) - n_times + 1) |-> FLe(ac_channel[n_times - 1 + k], RInt(0))]

\* np.argmax of a boolean vector with a True entry: the first one, counted from 0
ArgmaxTrue(b) == SetMin({k \in 1..Len(b) : b[k]}) - 1

DecorrTimeOne(sf, x) ==
    LET zero_cross == ZeroCross(_unbiased_autocorr(x), Len(x))
    IN  IF \E k \in 1..Len(zero_cross) : zero_cross[k]
        THEN FDiv(RInt(ArgmaxTrue(zero_cross)), RInt(sf))
        ELSE RInt(-1)

compute_decorr_time(sf, d) == Ok([c \in 1..Len(d) |-> DecorrTimeOne(sf, d[c])])

----------------------------------------------------------------------------
(* Wavelet coefficient energy: compute_wavelet_coef_energy *)

\* pywt.Wavelet(name).dec_len; 0 stands for a name pywt does not know (ValueError)
DecLen(wavelet_name) ==
    CASE wavelet_name \in {"haar", "db1"} -> 2
      [] wavelet_name = "db4" -> 8
      [] OTHER -> 0

RECURSIVE FloorLog2(_)
FloorLog2(q) == IF q <= 1 THEN 0 ELSE 1 + FloorLog2(q \div 2)

\* pywt.dwt_max_level(data_len, filter_len)
dwt_max_level(data_len, filter_len) ==
    IF filter_len <= 1 \/ data_len < filter_len - 1 THEN 0
    ELSE FloorLog2(data_len \div (filter_len - 1))

MaxLevelCap == 6

Sqrt2 == FSqrt(RInt(2))

\* one step of pywt.dwt, mode 'symmetric': <<cA, cD>>, each of (n + dec_len - 1) div 2
\* entries.  For the Haar filters (dec_len 2) cA[k] = (a[2k-1] + a[2k]) / sqrt 2 and
\* cD[k] = (a[2k-1] - a[2k]) / sqrt 2, an odd-length signal being extended by its last
\* sample.  The taps of db4 are irrational: its coefficients are finite reals that the
\* model does not evaluate.
Dwt(a, filter_len) ==
    LET n == Len(a)
        m == (n + filter_len - 1) \div 2
        e(i) == IF i <= n THEN a[i] ELSE a[n]
    IN  IF filter_len = 2
        THEN << [k \in 1..m |-> FDiv(FAdd(e(2 * k - 1), e(2 * k)), Sqrt2)],
                [k \in 1..m |-> FDiv(FSub(e(2 * k - 1), e(2 * k)), Sqrt2)] >>
        ELSE << [k \in 1..m |-> Real(2)], [k \in 1..m |-> Real(2)] >>

\* pywt.wavedec before its final reverse: the details of levels 1, 2, ..., level, then
\* the last approximation
RECURSIVE WavedecList(_, _, _)
WavedecList(a, filter_len, level) ==
    IF level = 0 THEN <<a>>
    ELSE LET ad == Dwt(a, filter_len)
         IN  <<ad[2]>> \o WavedecList(ad[1], filter_len, level - 1)

\* pywt.wavedec(x, wavelet, level=level): [cA_level, cD_level, ..., cD_1]
Wavedec(x, filter_len, level) ==
    Reverse(WavedecList([i \in 1..Len(x) |-> RInt(x[i])], filter_len, level))

\* np.sum(c ** 2)
Energy(c) == FSum([i \in 1..Len(c) |-> FMul(c[i], c[i])])

\* (mutant) the list walked forwards from its first detail array: coefs[l + 1]
WaveletEnergyRow_Forward(coefs, levdec) ==
    [l \in 1..levdec |-> Energy(coefs[(l - 1) + 1 + 1])]

\* wavelet_energy[j, l] = np.sum(coefs[levdec - l] ** 2) for l = 0..levdec-1 (here the
\* row and the list are indexed from 1)
WaveletEnergyRow(coefs, levdec) ==
    [l \in 1..levdec |-> Energy(coefs[(levdec - (l - 1)) + 1])]

compute_wavelet_coef_energy(d, wavelet_name) ==
    LET n_times == Len(d[1])
        dec_len == DecLen(wavelet_name)
        levdec == Min2(dwt_max_level(n_times, dec_len), MaxLevelCap)
    IN  IF dec_len = 0 THEN Raise("ValueError")
        ELSE Ok(Ravel([c \in 1..Len(d) |->
                          WaveletEnergyRow(Wavedec(d[c], dec_len, levdec), levdec)]))

----------------------------------------------------------------------------
(* The compiled helpers: _slope_lstsq and _accumulate_std                  *)
(*                                                                         *)
(* A kernel under @nb.jit runs in one of two modes.  "nopython": compiled; *)
(* a division by zero raises ZeroDivisionError, math.log follows IEEE      *)
(* (log(0) = -inf, no exception).  "python": the plain function on numpy   *)
(* scalars; a numpy scalar divided by zero is nan or an infinity (with a   *)
(* warning), a Python number divided by zero raises ZeroDivisionError and  *)
(* math.log raises ValueError on an argument <= 0.                         *)

Modes == {"python", "nopython"}

\* the mode of a kernel decorated with nopython=True
JitMode(b) == IF b = "mock" THEN "python" ELSE "nopython"

\* the mode of a kernel decorated without nopython=True: where the build compiles, the
\* kernel is compiled or, when its typing fails, left to the interpreter; which of the
\* two is settled when the module is imported, not at a call
LooseJitMode(b) == IF b = "numba" THEN "nopython" ELSE "python"

\* s = 0; for j in range(n): s += x[j]
RECURSIVE FAccumulate(_, _)
FAccumulate(x, n) == IF n = 0 THEN RInt(0) ELSE FAdd(FAccumulate(x, n - 1), x[n])

FSquare(x) == FMul(x, x)

\* math.sqrt of a float that is not negative
FSqrtAny(x) == IF x.k = "num" THEN FSqrt(x) ELSE x

\* x < y as floats compare: False when either side is nan
FLtAny(x, y) == x.k = "num" /\ y.k = "num" /\ FLt(x, y)

FMax2(a, b) == IF FLt(a, b) THEN b ELSE a

FMin2(a, b) == IF FLt(b, a) THEN b ELSE a

\* a float whose record determines its value
Identified(x) == x.k = "num" \/ (x.k = "real" /\ <<x.d, x.r>> # <<1, 1>>)

\* den = n_times * sx2 - (sx ** 2).  Where the abscissae are known and not all equal,
\* den is positive (Cauchy-Schwarz), which the signs alone do not show.
SlopeDen(x) ==
    LET n_times == Len(x)
        sx2 == FAccumulate([j \in 1..n_times |-> FSquare(x[j])], n_times)
        sx == FAccumulate(x, n_times)
        den == FSub(FMul(RInt(n_times), sx2), FSquare(sx))
    IN  IF /\ den.k = "real"
           /\ \A j \in 1..n_times : Identified(x[j])
           /\ \E i, j \in 1..n_times : x[i] # x[j]
        THEN Real(1)
        ELSE den

\* num = n_times * sxy - sx * sy
SlopeNum(x, y) ==
    LET n_times == Len(x)
        sx == FAccumulate(x, n_times)
        sy == FAccumulate(y, n_times)
        sxy == FAccumulate([j \in 1..n_times |-> FMul(x[j], y[j])], n_times)
    IN  FSub(FMul(RInt(n_times), sxy), FMul(sx, sy))

\* return num / den: with no point the sums are the integers 0 (0 / 0 raises in both
\* modes); compiled, a zero den raises; interpreted, num and den are numpy scalars
_slope_lstsq(mode, x, y) ==
    LET den == SlopeDen(x)
    IN  IF Len(x) = 0 \/ (mode = "nopython" /\ SignOf(den) = 0)
        THEN Raise("ZeroDivisionError")
        ELSE Ok(FDiv(SlopeNum(x, y), den))

\* r[0] = 0 and r[j] = the standard deviation (ddof 1) of x[0..j]
_accumulate_std(x) ==
    [j1 \in 1..Len(x) |->
        IF j1 = 1 THEN RInt(0)
        ELSE LET m == FDiv(RInt(SumRange(x, 1, j1)), RInt(j1))
                 s == FAccumulate([k \in 1..j1 |-> FSquare(FSub(RInt(x[k]), m))], j1)
             IN  FSqrt(FDiv(s, RInt(j1 - 1)))]

\* the outcome of a loop over the channels: the first exception raised, or the vector
\* of the channels' values
Channels(outs) ==
    IF \E c \in 1..Len(outs) : outs[c].st = "raise"
    THEN outs[SetMin({c \in 1..Len(outs) : outs[c].st = "raise"})]
    ELSE Ok([c \in 1..Len(outs) |-> outs[c].val])

----------------------------------------------------------------------------
(* Hurst exponent: compute_hurst_exponent *)

\* 1e-12, kept as a positive float of unrecorded size
HurstEps == Real(1)

\* z = np.cumsum(data[j, :] - m)
HurstCumSum(x) ==
    LET m == ChannelMean(x)
        y == [i \in 1..Len(x) |-> FSub(RInt(x[i]), m)]
    IN  [i \in 1..Len(x) |-> FAccumulate(y, i)]

\* np.maximum.accumulate(z)[j - 1] and np.minimum.accumulate(z)[j - 1]
RECURSIVE RunMax(_, _)
RunMax(z, j) == IF j = 1 THEN z[1] ELSE FMax2(RunMax(z, j - 1), z[j])

RECURSIVE RunMin(_, _)
RunMin(z, j) == IF j = 1 THEN z[1] ELSE FMin2(RunMin(z, j - 1), z[j])

\* r = (np.maximum.accumulate(z) - np.minimum.accumulate(z))[1:]
HurstRange(x) ==
    LET z == HurstCumSum(x)
    IN  [j \in 1..(Len(x) - 1) |-> FSub(RunMax(z, j + 1), RunMin(z, j + 1))]

\* s = _accumulate_std(data[j, :])[1:]; s[np.where(s == 0)] = 1e-12
HurstStd(x) ==
    LET s == _accumulate_std(x)
    IN  [j \in 1..(Len(x) - 1) |-> IF SignOf(s[j + 1]) = 0 THEN HurstEps ELSE s[j + 1]]

\* y_reg = np.log(r / s)
HurstYReg(x) ==
    LET r == HurstRange(x)
        s == HurstStd(x)
    IN  [j \in 1..(Len(x) - 1) |-> FLog(FDiv(r[j], s[j]))]

\* x_reg = np.log(np.arange(1, y_reg.shape[0] + 1))
HurstXReg(x) == [j \in 1..(Len(x) - 1) |-> FLog(RInt(j))]

\* the function itself is interpreted in every build; _slope_lstsq is compiled or not
compute_hurst_exponent(b, d) ==
    Channels([c \in 1..Len(d) |-> _slope_lstsq(JitMode(b), HurstXReg(d[c]), HurstYReg(d[c]))])

----------------------------------------------------------------------------
(* Approximate entropy: compute_app_entropy *)

\* data[t, i] with i counted from 0
At(x, i) == x[i + 1]

\* s = sum of the squares; s /= (n_times - 1): with one sample the compiled division
\* raises and the interpreted one gives nan (0 / 0) or inf
AppEntropyS(mode, x) ==
    LET n_times == Len(x)
        s == RInt(SumSeq([j \in 1..n_times |-> x[j] * x[j]]))
    IN  IF n_times = 1 /\ mode = "nopython" THEN Raise("ZeroDivisionError")
        ELSE Ok(FDiv(s, RInt(n_times - 1)))

\* r = 0.25 * sqrt(s)
AppEntropyR(s) == FMul(Rat(1, 4), FSqrtAny(s))

\* the pairs (i, j) the inner loop has visited when the outer index i is done
AppEntropyPairs(n_times, i) ==
    {p \in (0..i) \X (0..(n_times - 4)) : p[1] + 1 <= p[2]}

\* da < r, da the larger of |x[i] - x[j]| and |x[i+1] - x[j+1]|
AppEntropyMatchA(x, r, p) ==
    LET d1 == Abs(At(x, p[1]) - At(x, p[2]))
        d2 == Abs(At(x, p[1] + 1) - At(x, p[2] + 1))
    IN  FLtAny(RInt(IF d1 >= d2 THEN d1 ELSE d2), r)

\* d3 < r
AppEntropyMatchB(x, r, p) ==
    FLtAny(RInt(Abs(At(x, p[1] + 2) - At(x, p[2] + 2))), r)

\* a and b when the outer index i is done: they are set to 0 before the loop over i only
AppEntropyA(x, r, i) ==
    Cardinality({p \in AppEntropyPairs(Len(x), i) : AppEntropyMatchA(x, r, p)})

AppEntropyB(x, r, i) ==
    Cardinality({p \in AppEntropyPairs(Len(x), i) :
                    AppEntropyMatchA(x, r, p) /\ AppEntropyMatchB(x, r, p)})

\* the term the outer index i adds to p
AppEntropyTerm(x, r, i) ==
    LET a == AppEntropyA(x, r, i)
        b == AppEntropyB(x, r, i)
    IN  IF a > 0 /\ b > 0 THEN FLog(Rat(b, a)) ELSE RInt(0)

AppEntropyP(x, r) ==
    LET n == Len(x) - 2
    IN  IF n <= 0 THEN RInt(0)
        ELSE FAccumulate([i1 \in 1..n |-> AppEntropyTerm(x, r, i1 - 1)], n)

\* appen[t] = (-2.0) * p * (1.0 / (n_times - 2)): 1.0 / 0 raises in both modes
AppEntropyOne(mode, x) ==
    LET n_times == Len(x)
        s == AppEntropyS(mode, x)
    IN  IF s.st = "raise" THEN s
        ELSE IF n_times = 2 THEN Raise("ZeroDivisionError")
        ELSE Ok(FMul(FMul(RInt(-2), AppEntropyP(x, AppEntropyR(s.val))),
                     Rat(1, n_times - 2)))

compute_app_entropy(b, d) ==
    Channels([t \in 1..Len(d) |-> AppEntropyOne(JitMode(b), d[t])])

----------------------------------------------------------------------------
(* Sample entropy: compute_samp_entropy *)

\* s = sqrt(sum of the squares / n_times): the root mean square, not the deviation
SampEntropyS(x) ==
    FSqrt(FDiv(RInt(SumSeq([j \in 1..Len(x) |-> x[j] * x[j]])), RInt(Len(x))))

\* x_new[j] = (data[t, j] - m) / s
SampEntropyXNew(x) ==
    LET m == ChannelMean(x)
        s == SampEntropyS(x)
    IN  [j \in 1..Len(x) |-> FDiv(FSub(RInt(x[j]), m), s)]

SampEntropyR == Rat(1, 5)

\* abs(x_new[j] - y1) < r, y1 = x_new[i]
SampEntropyMatch(x_new, i, j) ==
    FLtAny(FAbs(FSub(At(x_new, j), At(x_new, i))), SampEntropyR)

\* run[jj] when the outer index i is done, j = jj + i + 1: lastrun[jj] is run[jj] of i - 1
RECURSIVE SampEntropyRun(_, _, _)
SampEntropyRun(x_new, i, jj) ==
    IF SampEntropyMatch(x_new, i, jj + i + 1)
    THEN 1 + (IF i = 0 THEN 0 ELSE SampEntropyRun(x_new, i - 1, jj))
    ELSE 0

\* the (i, jj) the loops visit
SampEntropyVisits(n_times) ==
    {p \in (0..(n_times - 2)) \X (0..(n_times - 2)) : p[2] < n_times - p[1] - 1}

\* a[k] and b[k] after the sweep, k counted from 0: m1 = min(mm, run[jj]) and k < m1
SampEntropyA(x_new, k) ==
    Cardinality({p \in SampEntropyVisits(Len(x_new)) :
                    SampEntropyRun(x_new, p[1], p[2]) >= k + 1})

SampEntropyB(x_new, k) ==
    Cardinality({p \in SampEntropyVisits(Len(x_new)) :
                    /\ SampEntropyRun(x_new, p[1], p[2]) >= k + 1
                    /\ p[2] + p[1] + 1 < Len(x_new) - 1})

\* sampen[t] = -log(a[-1] / b[mm - 2]), mm = 3.  Compiled: the all-zero channel raises
\* at x_new (s = 0), b[1] = 0 raises.  Interpreted: the divisions give nan or inf and
\* math.log raises on 0.
SampEntropyOne(mode, x) ==
    LET x_new == SampEntropyXNew(x)
        a2 == RInt(SampEntropyA(x_new, 2))
        b1 == RInt(SampEntropyB(x_new, 1))
        q == FDiv(a2, b1)
    IN  IF mode = "nopython" /\ (SignOf(SampEntropyS(x)) = 0 \/ SignOf(b1) = 0)
        THEN Raise("ZeroDivisionError")
        ELSE IF mode = "python" /\ LogDomainError(q) THEN Raise("ValueError")
        ELSE Ok(FNeg(FLog(q)))

compute_samp_entropy(b, d) ==
    Channels([t \in 1..Len(d) |-> SampEntropyOne(JitMode(b), d[t])])

----------------------------------------------------------------------------
(* Hjorth mobility and complexity in the time domain *)

\* np.std(x, ddof=1): one sample gives 0 / 0 = nan (with a warning)
ChannelStd(x) == FSqrtAny(ChannelVariance(x))

\* x = np.insert(data, 0, 0, axis=-1)
InsertZero(x) == <<0>> \o x

\* np.divide(sdx, sx), sdx and sx the deviations of np.diff(x) and x
HjorthMobilityOne(x) ==
    FDiv(ChannelStd(Diff(InsertZero(x))), ChannelStd(InsertZero(x)))

compute_hjorth_mobility(d) == Ok([c \in 1..Len(d) |-> HjorthMobilityOne(d[c])])

\* np.divide(m_dx, m_x): the mobility of dx = np.diff(x) over the mobility of data
HjorthComplexityOne(x) ==
    FDiv(HjorthMobilityOne(Diff(InsertZero(x))), HjorthMobilityOne(x))

compute_hjorth_complexity(d) == Ok([c \in 1..Len(d) |-> HjorthComplexityOne(d[c])])

----------------------------------------------------------------------------
(* Higuchi fractal dimension: compute_higuchi_fd *)

DefaultKmax == 10

\* n_max = int(floor((n_times - m - 1) / k))
HiguchiNMax(n_times, k, m) == FloorDiv(n_times - m - 1, k)

\* the sample indices (from 0) the sum over j in range(1, n_max) reads
HiguchiReads(n_times, k, m) ==
    UNION {{m + j * k, m + (j - 1) * k} : j \in 1..(HiguchiNMax(n_times, k, m) - 1)}

\* ll = sum of |data[s, m + j*k] - data[s, m + (j-1)*k]|, j in range(1, n_max)
HiguchiLength(x, k, m) ==
    LET n_max == HiguchiNMax(Len(x), k, m)
    IN  SumSeq([j \in 1..(n_max - 1) |-> Abs(At(x, m + j * k) - At(x, m + (j - 1) * k))])

\* lm[m]: ll / k * ((n_times - 1) / (k * n_max)), for n_max # 0
HiguchiLm(x, k, m) ==
    FMul(Rat(HiguchiLength(x, k, m), k),
         Rat(Len(x) - 1, k * HiguchiNMax(Len(x), k, m)))

\* m_lm: the mean of lm
HiguchiMeanLm(x, k) ==
    FDiv(FAccumulate([m1 \in 1..k |-> HiguchiLm(x, k, m1 - 1)], k), RInt(k))

\* the pass for one k: (n_times - 1) / (k * n_max) divides integers and raises on
\* n_max = 0 in both modes; interpreted, log(m_lm) raises on m_lm = 0
HiguchiPass(mode, x, k) ==
    IF \E m \in 0..(k - 1) : HiguchiNMax(Len(x), k, m) = 0
    THEN Raise("ZeroDivisionError")
    ELSE IF mode = "python" /\ LogDomainError(HiguchiMeanLm(x, k)) THEN Raise("ValueError")
    ELSE Ok(FLog(HiguchiMeanLm(x, k)))

\* x_reg[k - 1] = log(1. / k)
HiguchiXReg(kmax) == [k \in 1..kmax |-> FLog(Rat(1, k))]

\* slope_mode is the mode of _slope_lstsq, which is compiled wherever the build compiles
HiguchiOne(mode, slope_mode, x, kmax) ==
    LET pass == [k \in 1..kmax |-> HiguchiPass(mode, x, k)]
        y_reg == Channels(pass)
    IN  IF y_reg.st = "raise" THEN y_reg
        ELSE _slope_lstsq(slope_mode, HiguchiXReg(kmax), y_reg.val)

compute_higuchi_fd(mode, slope_mode, d, kmax) ==
    Channels([s \in 1..Len(d) |-> HiguchiOne(mode, slope_mode, d[s], kmax)])

----------------------------------------------------------------------------
(* Katz fractal dimension: compute_katz_fd *)

\* dists = np.abs(np.diff(data, axis=-1))
KatzDists(x) == [i \in 1..(Len(x) - 1) |-> Abs(x[i + 1] - x[i])]

\* ln = np.log10(np.divide(ll, a)), a = np.mean(dists): a channel without a step
\* has ll = a = 0 and 0 / 0 = nan
KatzLn(x) ==
    LET ll == RInt(SumSeq(KatzDists(x)))
        a == FDiv(ll, RInt(Len(x) - 1))
    IN  FLog(FDiv(ll, a))

\* d = np.max(np.abs(aux_d[:, 1:])), for two samples or more
KatzD(x) == MaxSeq([i \in 1..(Len(x) - 1) |-> Abs(x[i + 1] - x[1])])

KatzOne(x) ==
    LET ln == KatzLn(x)
        ll == RInt(SumSeq(KatzDists(x)))
    IN  FDiv(ln, FAdd(ln, FLog(FDiv(RInt(KatzD(x)), ll))))

\* np.max over the empty aux_d[:, 1:] of a one-sample matrix raises ValueError
compute_katz_fd(d) ==
    IF Len(d[1]) = 1 THEN Raise("ValueError")
    ELSE Ok([c \in 1..Len(d) |-> KatzOne(d[c])])

----------------------------------------------------------------------------
(* Inputs *)

MaxLen == 3

MaxAmp == 1

MaxSfreq == 2

Builds == {"numba", "numba_object", "mock"}

Signals == UNION {[1..n -> (-MaxAmp)..MaxAmp] : n \in 1..MaxLen}

ConstSignal(n, v) == [i \in 1..n |-> v]

\* one channel, or a channel of zero variance followed by any channel
Matrices ==
    {<<x>> : x \in Signals} \cup
    {<<ConstSignal(Len(x[2]), x[1]), x[2]>> : x \in ((-MaxAmp)..MaxAmp) \X Signals}

\* channel 0 all zeros, channel 1 the ramp 0, 1, ..., 255
ScenarioData == <<[i \in 1..256 |-> 0], [i \in 1..256 |-> i - 1]>>

NoCall == [name |-> "", args |-> <<>>]

NoLoc == <<>>

\* the spectrum of a matrix whose spectrum no kernel of the run reads
FlatSpectrum == {[freqs |-> <<0>>, ps |-> [c \in 1..n |-> <<1>>]] : n \in 1..2}

InitWith(inputs, builds, sfreqs, spectra) ==
    /\ build \in builds
    /\ sfreq \in sfreqs
    /\ registry = get_univariate_funcs(sfreq)
    /\ data \in inputs
    /\ spectrum \in {sp \in spectra : Len(sp.ps) = Len(data)}
    /\ shared = [freq_bands |-> DefaultFreqBands]
    /\ call = NoCall
    /\ out = Ok(<<>>)
    /\ loc = NoLoc

\* a call leaves the build, the registry and the input matrix as they are
Frame == UNCHANGED <<build, sfreq, registry, data, spectrum, shared>>

\* the caller is between two calls
Idle == call = NoCall

\* the caller has taken the returned vector (or caught the exception)
Return ==
    /\ ~Idle
    /\ call' = NoCall
    /\ out' = Ok(<<>>)
    /\ loc' = NoLoc
    /\ Frame

----------------------------------------------------------------------------
(* The power spectrum: what utils.power_spectrum may return *)

MaxBins == 3

PowerLevels == {0, 1, 2}

\* the strictly ascending sequences over S with lengths in lens
RECURSIVE SortedSeq(_)
SortedSeq(S) ==
    IF S = {} THEN <<>>
    ELSE LET m == CHOOSE x \in S : \A y \in S : x <= y
         IN  <<m>> \o SortedSeq(S \ {m})

AscendingSeqs(S, lens) == {SortedSeq(T) : T \in {U \in SUBSET S : Cardinality(U) \in lens}}

FreqGrids == AscendingSeqs(0..MaxBins, 1..MaxBins)

\* a second channel's spectrum: the ramp 1, 2, ..., nb
RampPower(nb) == [i \in 1..nb |-> i]

\* the spectral kernels see the matrix only through power_spectrum
SpectralInputs == {<<ConstSignal(MaxLen, 0)>>, <<ConstSignal(MaxLen, 0), ConstSignal(MaxLen, 1)>>}

\* what power_spectrum(sfreq, data, return_db=False) may return for a matrix of n_channels
\* rows: an ascending frequency grid and one row of non-negative power per channel
PowerSpectra(n_channels) ==
    {[freqs |-> g,
      ps |-> IF n_channels = 1 THEN <<row>> ELSE <<row, RampPower(Len(g))>>] :
        g \in FreqGrids, row \in UNION {[1..nb -> PowerLevels] : nb \in 1..MaxBins}}

power_spectrum(d) == {sp \in PowerSpectra(Len(d)) : Len(sp.ps[1]) = Len(sp.freqs)}

AnySpectrum == UNION {power_spectrum(d) : d \in SpectralInputs}

FreqBandChoices == AscendingSeqs(0..(MaxBins + 1), {2, 3}) \cup {DefaultFreqBands}

----------------------------------------------------------------------------
(* Calls of the basic statistics through the registry *)

StatsNames == {"mean", "variance", "ptp_amplitude", "zero_cross", "line_len"}

StatsKernel(func, d) ==
    CASE func = "compute_mean" -> compute_mean(d)
      [] func = "compute_variance" -> compute_variance(d)
      [] func = "compute_ptp" -> compute_ptp(d)
      [] func = "compute_zero_crossings" -> compute_zero_crossings(d)
      [] func = "compute_line_length" -> compute_line_length(d)

StatsCall(name) ==
    /\ Idle
    /\ name \in DOMAIN registry
    /\ Unbound(registry[name]) = <<"data">>
    /\ call' = [name |-> name, args |-> <<>>]
    /\ out' = Ok(StatsKernel(registry[name].func, data))
    /\ loc' = NoLoc
    /\ Frame

InitStats == InitWith(Matrices \cup {ScenarioData}, Builds, 1..MaxSfreq, FlatSpectrum)

NextStats == (\E name \in StatsNames : StatsCall(name)) \/ Return

SpecStats == InitStats /\ [][NextStats]_vars

----------------------------------------------------------------------------
(* Calls of compute_power_spectrum_freq_bands *)

BandsCall(sp, freq_bands, normalize) ==
    /\ Idle
    /\ call' = [name |-> "compute_power_spectrum_freq_bands",
                args |-> [freq_bands |-> freq_bands, normalize |-> normalize]]
    /\ out' = compute_power_spectrum_freq_bands(sp.ps, sp.freqs, freq_bands, normalize)
    /\ loc' = [ps |-> sp.ps, freqs |-> sp.freqs,
               idx_freq_bands |-> Digitize(sp.freqs, freq_bands)]
    /\ Frame

\* pow_freq_bands of the registry: the defaults of freq_bands and normalize
BandsRegistryCall ==
    /\ "pow_freq_bands" \in DOMAIN registry
    /\ registry["pow_freq_bands"].func = "compute_power_spectrum_freq_bands"
    /\ BandsCall(spectrum, shared.freq_bands, TRUE)

BandsDirectCall ==
    \E fb \in FreqBandChoices, nz \in BOOLEAN : BandsCall(spectrum, fb, nz)

InitBands == InitWith(SpectralInputs, {"mock"}, {MaxSfreq}, AnySpectrum)

NextBands == BandsRegistryCall \/ BandsDirectCall \/ Return

SpecBands == InitBands /\ [][NextBands]_vars

----------------------------------------------------------------------------
(* Calls of compute_spect_entropy *)

SpectEntropyCall ==
    /\ Idle
    /\ "spect_entropy" \in DOMAIN registry
    /\ registry["spect_entropy"].func = "compute_spect_entropy"
    /\ call' = [name |-> "compute_spect_entropy", args |-> <<>>]
    /\ out' = compute_spect_entropy(spectrum.ps)
    /\ loc' = [m |-> [c \in 1..Len(spectrum.ps) |-> SpectEntropyDenominator(spectrum.ps[c])],
               ps_norm |-> [c \in 1..Len(spectrum.ps) |-> SpectEntropyNorm(spectrum.ps[c])]]
    /\ Frame

InitSpectEntropy == InitWith(SpectralInputs, {"mock"}, {MaxSfreq}, AnySpectrum)

NextSpectEntropy == SpectEntropyCall \/ Return

SpecSpectEntropy == InitSpectEntropy /\ [][NextSpectEntropy]_vars

----------------------------------------------------------------------------
(* Calls of compute_spect_edge_freq *)

RefFreqChoices == {<<>>} \cup {<<r>> : r \in 0..(MaxBins + 1)}

EdgeChoices == {<<>>, << <<50>> >>, << <<100>> >>, << <<10, 90>> >>, << <<150>> >>, << <<>> >>}

EdgeCall(ref_freq, edge) ==
    /\ Idle
    /\ call' = [name |-> "compute_spect_edge_freq",
                args |-> [ref_freq |-> ref_freq, edge |-> edge]]
    /\ out' = compute_spect_edge_freq(sfreq, spectrum.ps, spectrum.freqs, ref_freq, edge)
    /\ loc' = NoLoc
    /\ Frame

\* spect_edge_freq of the registry: sfreq bound, ref_freq and edge left at None
EdgeRegistryCall ==
    /\ "spect_edge_freq" \in DOMAIN registry
    /\ registry["spect_edge_freq"].func = "compute_spect_edge_freq"
    /\ registry["spect_edge_freq"].bound = <<sfreq>>
    /\ EdgeCall(<<>>, <<>>)

EdgeDirectCall == \E ref_freq \in RefFreqChoices, edge \in EdgeChoices : EdgeCall(ref_freq, edge)

InitEdge == InitWith(SpectralInputs, {"mock"}, 1..MaxSfreq, AnySpectrum)

NextEdge == EdgeRegistryCall \/ EdgeDirectCall \/ Return

SpecEdge == InitEdge /\ [][NextEdge]_vars

----------------------------------------------------------------------------
(* Calls of compute_decorr_time *)

\* decorr_time of the registry: partial(compute_decorr_time, sfreq)
DecorrCall ==
    /\ Idle
    /\ "decorr_time" \in DOMAIN registry
    /\ registry["decorr_time"].func = "compute_decorr_time"
    /\ call' = [name |-> "compute_decorr_time", args |-> <<>>]
    /\ out' = compute_decorr_time(registry["decorr_time"].bound[1], data)
    /\ loc' = NoLoc
    /\ Frame

InitDecorr == InitWith(Matrices, {"mock"}, 1..MaxSfreq, FlatSpectrum)

NextDecorr == DecorrCall \/ Return

SpecDecorr == InitDecorr /\ [][NextDecorr]_vars

----------------------------------------------------------------------------
(* Calls of compute_wavelet_coef_energy *)

Ramp(n) == [i \in 1..n |-> i - 1]

Impulse(n) == [i \in 1..n |-> IF i = 2 THEN 1 ELSE 0]

\* the small matrices, and longer ones that reach two and more levels and the cap
WaveletInputs ==
    Matrices \cup {<<Ramp(n)>> : n \in {4, 5, 8, 14, 128, 1024}}
             \cup {<<Impulse(n), Ramp(n)>> : n \in {4, 6, 8, 256}}

WaveletNames == {"haar", "db1", "db4", "no_such_wavelet"}

WaveletCall(wavelet_name) ==
    /\ Idle
    /\ call' = [name |-> "compute_wavelet_coef_energy",
                args |-> [wavelet_name |-> wavelet_name]]
    /\ out' = compute_wavelet_coef_energy(data, wavelet_name)
    /\ loc' = NoLoc
    /\ Frame

\* wavelet_coef_energy of the registry: wavelet_name left at 'db4'
WaveletRegistryCall ==
    /\ "wavelet_coef_energy" \in DOMAIN registry
    /\ registry["wavelet_coef_energy"].func = "compute_wavelet_coef_energy"
    /\ WaveletCall("db4")

WaveletDirectCall == \E wavelet_name \in WaveletNames : WaveletCall(wavelet_name)

InitWavelet == InitWith(WaveletInputs, {"mock"}, {MaxSfreq}, FlatSpectrum)

NextWavelet == WaveletRegistryCall \/ WaveletDirectCall \/ Return

SpecWavelet == InitWavelet /\ [][NextWavelet]_vars

----------------------------------------------------------------------------
(* Calls of the nonlinear kernels: Hurst, entropies, Hjorth, Higuchi, Katz *)

MaxLongLen == 6

MaxKmax == 3

\* one-channel matrices longer than the small ones, over two sample values
LongSignals == UNION {[1..n -> {0, 1}] : n \in (MaxLen + 1)..MaxLongLen}

NonlinearInputs == Matrices \cup {<<x>> : x \in LongSignals}

NonlinearNames == {"hurst_exp", "app_entropy", "samp_entropy", "hjorth_mobility",
                   "hjorth_complexity", "katz_fd"}

\* the kernels that take the matrix alone
NonlinearKernel(func, b, d) ==
    CASE func = "compute_hurst_exponent" -> compute_hurst_exponent(b, d)
      [] func = "compute_app_entropy" -> compute_app_entropy(b, d)
      [] func = "compute_samp_entropy" -> compute_samp_entropy(b, d)
      [] func = "compute_hjorth_mobility" -> compute_hjorth_mobility(d)
      [] func = "compute_hjorth_complexity" -> compute_hjorth_complexity(d)
      [] func = "compute_katz_fd" -> compute_katz_fd(d)

NonlinearCall(name) ==
    /\ Idle
    /\ name \in DOMAIN registry
    /\ Unbound(registry[name]) = <<"data">>
    /\ call' = [name |-> name, args |-> <<>>]
    /\ out' = NonlinearKernel(registry[name].func, build, data)
    /\ loc' = NoLoc
    /\ Frame

\* compute_higuchi_fd is decorated without nopython=True: see LooseJitMode
HiguchiCall(name, args, kmax) ==
    /\ Idle
    /\ out' = compute_higuchi_fd(LooseJitMode(build), JitMode(build), data, kmax)
    /\ loc' = [kmax |-> kmax, mode |-> LooseJitMode(build)]
    /\ call' = [name |-> name, args |-> args]
    /\ Frame

\* higuchi_fd of the registry: kmax left at 10
HiguchiRegistryCall ==
    /\ "higuchi_fd" \in DOMAIN registry
    /\ registry["higuchi_fd"].func = "compute_higuchi_fd"
    /\ HiguchiCall("higuchi_fd", <<>>, DefaultKmax)

HiguchiDirectCall ==
    \E kmax \in 1..MaxKmax : HiguchiCall("compute_higuchi_fd", [kmax |-> kmax], kmax)

InitNonlinear == InitWith(NonlinearInputs, Builds, {MaxSfreq}, FlatSpectrum)

NextNonlinear ==
    \/ \E name \in NonlinearNames : NonlinearCall(name)
    \/ HiguchiRegistryCall
    \/ HiguchiDirectCall
    \/ Return

SpecNonlinear == InitNonlinear /\ [][NextNonlinear]_vars

----------------------------------------------------------------------------
(* C1 *)

Half(n) == Rat(n, 2)

ScenarioCalled(name) == data = ScenarioData /\ call.name = name /\ out.st = "ok"

\* C1 (as amended): on the 2 x 256 scenario (zeros, ramp 0..255) the registry entries
\* return mean = [0, 127.5], ptp_amplitude = [0, 255], line_len = [0, 255] and
\* zero_cross = [0, 1]: the ramp's first pair (0, 1) differs in sign.
C1_ScenarioValues ==
    /\ ScenarioCalled("mean") => out.val = <<RInt(0), Half(255)>>
    /\ ScenarioCalled("ptp_amplitude") => out.val = <<RInt(0), RInt(255)>>
    /\ ScenarioCalled("zero_cross") => out.val = <<RInt(0), RInt(1)>>
    /\ ScenarioCalled("line_len") => out.val = <<RInt(0), RInt(255)>>

C1_Witness == ScenarioCalled("zero_cross") /\ Len(out.val) = 2

\* C1 as stated: the same values with zero_cross = [0, 0]
C1_Original ==
    /\ ScenarioCalled("mean") => out.val = <<RInt(0), Half(255)>>
    /\ ScenarioCalled("ptp_amplitude") => out.val = <<RInt(0), RInt(255)>>
    /\ ScenarioCalled("zero_cross") => out.val = <<RInt(0), RInt(0)>>
    /\ ScenarioCalled("line_len") => out.val = <<RInt(0), RInt(255)>>

----------------------------------------------------------------------------
(* C2, C3 *)

BandsCalled(normalize) ==
    /\ call.name = "compute_power_spectrum_freq_bands"
    /\ call.args.normalize = normalize

\* the power of a row in the bins whose frequency f has lo <= f < hi
InBandPower(row, freqs, lo, hi) ==
    SumSeq([i \in 1..Len(row) |-> IF lo <= freqs[i] /\ freqs[i] < hi THEN row[i] ELSE 0])

BinsIn(freqs, lo, hi) == {i \in 1..Len(freqs) : lo <= freqs[i] /\ freqs[i] < hi}

\* the values of channel c in the flat output of n_bands values per channel
ChannelValues(val, c, n_bands) == SubSeq(val, (c - 1) * n_bands + 1, c * n_bands)

\* C2 (as amended): with normalize=True the values of a channel of non-zero total power
\* sum to the share of that power lying in bins with freq_bands[0] <= f < freq_bands[-1];
\* the sum is 1 exactly when no power lies outside that range.
C2_NormalizedSumIsCoveredShare ==
    BandsCalled(TRUE) =>
        LET fb == call.args.freq_bands
            N == Len(fb)
        IN  /\ out.st = "ok"
            /\ \A c \in 1..Len(spectrum.ps) :
                  LET total == SumSeq(spectrum.ps[c])
                      covered == InBandPower(spectrum.ps[c], spectrum.freqs, fb[1], fb[N])
                      sum == FSum(ChannelValues(out.val, c, N - 1))
                  IN  total # 0 => /\ sum = Rat(covered, total)
                                   /\ (sum = RInt(1)) <=> (covered = total)

C2_Witness ==
    /\ BandsCalled(TRUE)
    /\ Len(spectrum.ps) = 2
    /\ Len(call.args.freq_bands) = 3
    /\ LET fb == call.args.freq_bands
           covered == InBandPower(spectrum.ps[1], spectrum.freqs, fb[1], fb[3])
       IN  /\ 0 < covered
           /\ covered < SumSeq(spectrum.ps[1])
           /\ FSum(ChannelValues(out.val, 1, 2)) = Rat(covered, SumSeq(spectrum.ps[1]))

\* C2 as stated: the normalized values of a channel of non-zero total power sum to 1
C2_Original ==
    BandsCalled(TRUE) =>
        /\ out.st = "ok"
        /\ \A c \in 1..Len(spectrum.ps) :
              SumSeq(spectrum.ps[c]) # 0 =>
                  FSum(ChannelValues(out.val, c, Len(call.args.freq_bands) - 1)) = RInt(1)

----------------------------------------------------------------------------
(* C4 *)

\* the kernel families of section 4 of the specification
Section4Families ==
    {"basic_statistics", "decorrelation_time", "hurst", "app_entropy", "samp_entropy",
     "higuchi", "katz", "hjorth_time", "hjorth_spectral", "band_power", "band_energy",
     "spectral_entropy", "spectral_edge_frequency", "svd_entropy", "svd_fisher_info",
     "wavelet_energy"}

\* C4: the registry holds a name for every kernel family of section 4, and every
\* entry takes the signal matrix as its only remaining argument.
C4_RegistryCoversFamilies ==
    /\ \A fam \in Section4Families :
          \E name \in DOMAIN registry : KernelFamily(registry[name].func) = fam
    /\ \A name \in DOMAIN registry : Unbound(registry[name]) = <<"data">>

----------------------------------------------------------------------------
(* C8 *)

\* the power of a row without its first (DC) bin
PowerAboveDC(row) == SumRange(row, 2, Len(row))

\* C8: the DC bin is left out of the normalization sum and of the entropy sum, so the
\* normalized values that enter the entropy sum add up to 1.
C8_DCExcludedFromBothSums ==
    call.name = "compute_spect_entropy" =>
        \A c \in 1..Len(spectrum.ps) :
            /\ loc.m[c] = RInt(PowerAboveDC(spectrum.ps[c]))
            /\ Len(loc.ps_norm[c]) = Len(spectrum.ps[c]) - 1
            /\ PowerAboveDC(spectrum.ps[c]) # 0 => FSum(loc.ps_norm[c]) = RInt(1)

----------------------------------------------------------------------------
(* C10 *)

EdgeCalled == call.name = "compute_spect_edge_freq"

\* the bins at which the cumulative power of a row has reached p percent of the power
\* held by the bins up to the first one at or above ref
ReachedBins(row, freqs, ref, p) ==
    LET upto == SetMin({i \in 1..Len(freqs) : freqs[i] >= ref})
    IN  {i \in 1..Len(row) : 100 * SumRange(row, 1, i) >= p * SumRange(row, 1, upto)}

\* the part of C10 about the values, for the calls that return
C10_ValuesWhenReturned ==
    (EdgeCalled /\ out.st = "ok") =>
        LET ref == RefFreq(sfreq, call.args.ref_freq)
            percents == EdgePercents(call.args.edge)
            n_edge == Len(percents)
        IN  /\ Len(out.val) = Len(spectrum.ps) * n_edge
            /\ \A c \in 1..Len(spectrum.ps), i \in 1..n_edge :
                  LET reached == ReachedBins(spectrum.ps[c], spectrum.freqs, ref, percents[i])
                      v == out.val[(c - 1) * n_edge + i]
                  IN  /\ reached # {} => v = RInt(spectrum.freqs[SetMin(reached)])
                      /\ (v = RInt(-1)) <=> (reached = {})

\* C10: for every channel and edge percentage the call returns the lowest frequency at
\* which the cumulative power reaches that share of the power up to the reference
\* frequency, at position c * n_edge + i, the sentinel -1 exactly when none does, and it
\* ends with a value or the sentinel for any reference frequency, never an index error.
C10_EdgeFreqOrSentinel ==
    /\ EdgeCalled => out.st = "ok"
    /\ C10_ValuesWhenReturned

----------------------------------------------------------------------------
(* C9 *)

\* the autocorrelation of x at lag k >= 0 over its count of terms, n - 1 - k, at least 1
NormalizedAutocorr(x, k) ==
    Rat(SumSeq([i \in 1..(Len(x) - k) |-> x[i] * x[i + k]]), Max2(Len(x) - 1 - k, 1))

NonPositiveLags(x) == {k \in 0..(Len(x) - 1) : NormalizedAutocorr(x, k).n <= 0}

\* C9: each channel's value is k / sfreq for the smallest lag k in 0..n_times-1 with a
\* non-positive normalized autocorrelation, and -1 exactly when there is no such lag.
C9_FirstNonPositiveLag ==
    call.name = "compute_decorr_time" =>
        /\ out.st = "ok"
        /\ Len(out.val) = Len(data)
        /\ \A c \in 1..Len(data) :
              LET lags == NonPositiveLags(data[c])
              IN  /\ lags # {} => out.val[c] = Rat(SetMin(lags), sfreq)
                  /\ (out.val[c] = RInt(-1)) <=> (lags = {})

\* a channel that never decorrelates beside one that does at lag 1, with sfreq = 2
C9_Witness ==
    /\ call.name = "compute_decorr_time"
    /\ sfreq = 2
    /\ Len(data) = 2
    /\ NonPositiveLags(data[1]) = {}
    /\ SetMin(NonPositiveLags(data[2]) \cup {Len(data[2])}) = 1
    /\ out.val = <<RInt(-1), Rat(1, 2)>>

----------------------------------------------------------------------------
(* C7 *)

RECURSIVE Pow2(_)
Pow2(L) == IF L = 0 THEN 1 ELSE 2 * Pow2(L - 1)

\* the maximum useful level: the largest L with 2^L * (dec_len - 1) <= n_times, or 0
MaxUsefulLevel(n_times, dec_len) ==
    LET Ls == {L \in 0..Min2(n_times, 20) : Pow2(L) * (dec_len - 1) <= n_times}
    IN  IF Ls = {} THEN 0 ELSE CHOOSE L \in Ls : \A K \in Ls : K <= L

\* the approximation of x after `level` Haar steps, and the detail of level `level` >= 1
RECURSIVE HaarApprox(_, _)
HaarApprox(x, level) ==
    IF level = 0 THEN [i \in 1..Len(x) |-> RInt(x[i])]
    ELSE Dwt(HaarApprox(x, level - 1), 2)[1]

HaarDetail(x, level) == Dwt(HaarApprox(x, level - 1), 2)[2]

WaveletCalled ==
    /\ call.name = "compute_wavelet_coef_energy"
    /\ out.st = "ok"

CalledLevdec == Min2(MaxUsefulLevel(Len(data[1]), DecLen(call.args.wavelet_name)), 6)

\* C7 (as amended): levdec = min(maximum useful level, 6), the output has
\* n_channels * levdec values, and each channel's values are the sums of squared detail
\* coefficients ordered from the finest level (level 1, first) to the coarsest retained
\* level (level levdec, last).
C7_EnergiesFinestFirst ==
    WaveletCalled =>
        /\ Len(out.val) = Len(data) * CalledLevdec
        /\ DecLen(call.args.wavelet_name) = 2 =>
              \A c \in 1..Len(data), l \in 1..CalledLevdec :
                  out.val[(c - 1) * CalledLevdec + l] = Energy(HaarDetail(data[c], l))

\* two channels, the cap of 6 in force, and levels whose energies differ
C7_Witness ==
    /\ WaveletCalled
    /\ call.args.wavelet_name = "haar"
    /\ Len(data) = 2
    /\ MaxUsefulLevel(Len(data[1]), 2) > 6
    /\ Len(out.val) = 12
    /\ out.val[7] = Energy(HaarDetail(data[2], 1))
    /\ out.val[12] = Energy(HaarDetail(data[2], 6))
    /\ out.val[7] # out.val[12]

\* C7 as stated: each channel's values run from the coarsest retained level (first) to
\* the finest level (last)
C7_Original ==
    WaveletCalled =>
        /\ Len(out.val) = Len(data) * CalledLevdec
        /\ DecLen(call.args.wavelet_name) = 2 =>
              \A c \in 1..Len(data), l \in 1..CalledLevdec :
                  out.val[(c - 1) * CalledLevdec + l] =
                      Energy(HaarDetail(data[c], CalledLevdec + 1 - l))

----------------------------------------------------------------------------
(* C5 *)

ZeroVariance(x) == \A i \in 1..Len(x) : x[i] = x[1]

C5Names == {"hurst_exp", "samp_entropy", "hjorth_mobility", "hjorth_complexity", "katz_fd"}

\* channel c of the matrix has zero variance and four samples or more (no window of
\* these kernels is short of samples), and one of the five kernels has been called
C5_Called(c) ==
    /\ call.name \in C5Names
    /\ c \in 1..Len(data)
    /\ ZeroVariance(data[c])
    /\ Len(data[c]) >= 4

\* C5: for a channel of zero variance the Hurst exponent, the sample entropy, the
\* time-domain Hjorth mobility and complexity and the Katz fractal dimension divide by
\* no zero and take no logarithm of a value <= 0: the call returns, and the channel's
\* output value is finite.
C5_ZeroVarianceStaysFinite ==
    \A c \in 1..Len(data) :
        C5_Called(c) => out.st = "ok" /\ ~IsNonFinite(out.val[c])

\* the kernels of C5 that do stay finite on a constant channel that is not all zeros
C5_FiniteOffZero ==
    \A c \in 1..Len(data) :
        (/\ C5_Called(c)
         /\ data[c][1] # 0
         /\ call.name \in {"samp_entropy", "hjorth_mobility", "hjorth_complexity"})
            => out.st = "ok" /\ IsFinite(out.val[c])

----------------------------------------------------------------------------
(* C6 *)

HiguchiCalled == call.name \in {"higuchi_fd", "compute_higuchi_fd"}

\* n_times of the matrix
NTimes == Len(data[1])

\* no pair (i, j) is visited by the loops of the entropy kernel
NoPairCompared ==
    \/ call.name = "app_entropy" /\ AppEntropyPairs(NTimes, NTimes - 3) = {}
    \/ call.name = "samp_entropy" /\ SampEntropyVisits(NTimes) = {}

\* compute_higuchi_fd with n_times <= kmax ends in an exception, in every mode
C6_HiguchiRejected == (HiguchiCalled /\ NTimes <= loc.kmax) => out.st = "raise"

\* C6: compute_higuchi_fd with n_times <= kmax, and compute_app_entropy or
\* compute_samp_entropy with so few samples that no pair of windows is compared, end
\* in a rejected call: an exception and no output vector, never a feature value.
C6_ShortInputRejected ==
    /\ C6_HiguchiRejected
    /\ NoPairCompared => out.st = "raise"

----------------------------------------------------------------------------
(* C11 *)

MaxScale == 3

\* the channel multiplied by the positive scalar k
Scaled(x, k) == [i \in 1..Len(x) |-> k * x[i]]

ScaledMatrix(d, k) == [c \in 1..Len(d) |-> Scaled(d[c], k)]

\* the indices i (from 0) in 0..n_times-2 with sign(x[i]) # sign(x[i+1])
SignChanges(x) == {i \in 0..(Len(x) - 2) : Sign(x[i + 1]) # Sign(x[i + 2])}

ZeroCrossCalled == call.name = "zero_cross" /\ out.st = "ok"

\* C11: for every channel compute_zero_crossings returns the number of indices i in
\* 0..n_times-2 at which sign(x[i]) differs from sign(x[i+1]) (signs -1, 0, +1, each
\* differing pair adding exactly 1), and the count is the same for the signal multiplied
\* by a positive scalar.
C11_SignChangesScaleInvariant ==
    ZeroCrossCalled =>
        /\ Len(out.val) = Len(data)
        /\ \A c \in 1..Len(data) : out.val[c] = RInt(Cardinality(SignChanges(data[c])))
        /\ \A k \in 1..MaxScale : compute_zero_crossings(ScaledMatrix(data, k)) = out.val

\* a channel with a change between zero and a non-zero sample and a change between the
\* two non-zero signs
C11_Witness ==
    /\ ZeroCrossCalled
    /\ \E c \in 1..Len(data) :
          /\ \E i \in SignChanges(data[c]) : data[c][i + 1] * data[c][i + 2] = 0
          /\ \E i \in SignChanges(data[c]) : data[c][i + 1] * data[c][i + 2] < 0
          /\ out.val[c] = RInt(2)

----------------------------------------------------------------------------
(* What the calls write: the arrays of the module that a statement writes in place *)

\* a statement of func at a line that writes into an array (a subscript assignment or an
\* augmented assignment to an ndarray); base is what the array shares its memory with:
\* "fresh" (allocated during the call), "data" (the caller's matrix), "freq_bands" (a
\* default argument made at import) or "registry" (the dictionary of the registry)
WriteTo(func, line, array, base) ==
    [func |-> func, line |-> line, array |-> array, base |-> base]

\* _unbiased_autocorr: s = np.add(...), autocorr = fftconvolve(...); _accumulate_std:
\* r = np.zeros(...)
HelperWrites ==
    {WriteTo("_unbiased_autocorr", 78, "s", "fresh"),
     WriteTo("_unbiased_autocorr", 80, "autocorr", "fresh"),
     WriteTo("_accumulate_std", 128, "r", "fresh")}

\* the output vectors and work arrays come from np.empty and np.zeros; decorr_time /= sfreq
\* (line 391) rebinds a numpy scalar and writes no array
KernelWrites ==
    {WriteTo("compute_hurst_exponent", 250, "hurst_exponent", "fresh"),
     WriteTo("compute_app_entropy", 301, "appen", "fresh"),
     WriteTo("compute_samp_entropy", 337, "x_new", "fresh"),
     WriteTo("compute_samp_entropy", 350, "run", "fresh"),
     WriteTo("compute_samp_entropy", 353, "a", "fresh"),
     WriteTo("compute_samp_entropy", 355, "b", "fresh"),
     WriteTo("compute_samp_entropy", 357, "run", "fresh"),
     WriteTo("compute_samp_entropy", 359, "lastrun", "fresh"),
     WriteTo("compute_samp_entropy", 360, "sampen", "fresh"),
     WriteTo("compute_decorr_time", 394, "decorrelation_times", "fresh"),
     WriteTo("compute_power_spectrum_freq_bands", 437, "pow_freq_bands", "fresh"),
     WriteTo("compute_higuchi_fd", 604, "lm", "fresh"),
     WriteTo("compute_higuchi_fd", 610, "lk", "fresh"),
     WriteTo("compute_higuchi_fd", 611, "x_reg", "fresh"),
     WriteTo("compute_higuchi_fd", 612, "y_reg", "fresh"),
     WriteTo("compute_higuchi_fd", 613, "higuchi", "fresh"),
     WriteTo("compute_energy_freq_bands", 805, "band_energy", "fresh"),
     WriteTo("compute_spect_edge_freq", 859, "spect_edge_freq", "fresh"),
     WriteTo("compute_spect_edge_freq", 861, "spect_edge_freq", "fresh"),
     WriteTo("compute_wavelet_coef_energy", 897, "wavelet_energy", "fresh")}

\* (mutant) s of compute_hurst_exponent is a view of the caller's matrix
InPlaceWrites_EpsIntoData ==
    HelperWrites \cup KernelWrites \cup
    {WriteTo("compute_hurst_exponent", 247, "s", "data")}

\* s = _accumulate_std(data[j, :])[1:] is a view of the array _accumulate_std allocates
InPlaceWrites ==
    HelperWrites \cup KernelWrites \cup
    {WriteTo("compute_hurst_exponent", 247, "s", "fresh")}

\* the functions of the module that func calls
Callees(func) ==
    CASE func = "compute_hurst_exponent" -> {"_accumulate_std", "_slope_lstsq"}
      [] func = "compute_decorr_time" -> {"_unbiased_autocorr"}
      [] func = "compute_higuchi_fd" -> {"_slope_lstsq"}
      [] func = "compute_hjorth_complexity" -> {"compute_hjorth_mobility"}
      [] OTHER -> {}

\* what a call of func writes into
BasesWritten(func) ==
    {w.base : w \in {v \in InPlaceWrites : v.func \in {func} \cup Callees(func)}}

\* v after a call of func: other content (w) when the call writes into its memory
After(base, func, v, w) == IF base \in BasesWritten(func) THEN w ELSE v

\* a matrix of other content
OtherMatrix(d) == [c \in 1..Len(d) |-> [i \in 1..Len(d[c]) |-> d[c][i] + 1]]

----------------------------------------------------------------------------
(* Sequences of calls through the registry, each kernel with the arguments the registry
   leaves at their defaults; what a call leaves in the matrix, the registry and the
   default arrays follows from the statements that write in place *)

MaxCalls == 3

PurityNames ==
    StatsNames \cup NonlinearNames \cup
    {"higuchi_fd", "decorr_time", "pow_freq_bands", "spect_entropy", "spect_edge_freq",
     "wavelet_coef_energy"}

\* a few matrices, of one and two channels, short and long, with their spectra
PurityInputs == {<<<<-1, 1, 0>>>>, <<<<0, 0, 0>>, <<1, -1, 1>>>>, <<<<0, 1, 0, 1, 1, 0>>>>}

PuritySpectra ==
    {[freqs |-> <<0, 1>>, ps |-> [c \in 1..n |-> <<c, 2>>]] : n \in 1..2}

\* the outcome of registry[name](data): the partial's bound arguments, then the matrix (or
\* its spectrum, which the kernel computes from the matrix), the rest at the defaults
RegistryOutcome(name, reg, b, d, sp, sh) ==
    LET func == reg[name].func
    IN  CASE name \in StatsNames -> Ok(StatsKernel(func, d))
          [] name \in NonlinearNames -> NonlinearKernel(func, b, d)
          [] func = "compute_higuchi_fd" ->
                compute_higuchi_fd(LooseJitMode(b), JitMode(b), d, DefaultKmax)
          [] func = "compute_decorr_time" -> compute_decorr_time(reg[name].bound[1], d)
          [] func = "compute_power_spectrum_freq_bands" ->
                compute_power_spectrum_freq_bands(sp.ps, sp.freqs, sh.freq_bands, TRUE)
          [] func = "compute_spect_entropy" -> compute_spect_entropy(sp.ps)
          [] func = "compute_spect_edge_freq" ->
                compute_spect_edge_freq(reg[name].bound[1], sp.ps, sp.freqs, <<>>, <<>>)
          [] func = "compute_wavelet_coef_energy" -> compute_wavelet_coef_energy(d, "db4")

\* loc keeps what the caller has seen so far: for every name called its first outcome and
\* the number of its calls, and the number of calls made in all
PurityCall(name) ==
    LET func == registry[name].func
    IN  /\ Idle
        /\ loc.n < MaxCalls
        /\ name \in DOMAIN registry
        /\ call' = [name |-> name, args |-> <<>>]
        /\ out' = RegistryOutcome(name, registry, build, data, spectrum, shared)
        /\ data' = After("data", func, data, OtherMatrix(data))
        /\ shared' = After("freq_bands", func, shared,
                           [freq_bands |-> [i \in 1..Len(shared.freq_bands) |-> 0]])
        /\ registry' = After("registry", func, registry,
                             [n \in DOMAIN registry \ {name} |-> registry[n]])
        /\ loc' = [seen |-> [n \in DOMAIN loc.seen \cup {name} |->
                                IF n # name THEN loc.seen[n]
                                ELSE IF n \in DOMAIN loc.seen
                                     THEN [loc.seen[n] EXCEPT !.times = @ + 1]
                                     ELSE [first |-> out', times |-> 1]],
                   n |-> loc.n + 1]
        /\ UNCHANGED <<build, sfreq, spectrum>>

PurityReturn ==
    /\ ~Idle
    /\ call' = NoCall
    /\ out' = Ok(<<>>)
    /\ UNCHANGED <<build, sfreq, registry, data, spectrum, shared, loc>>

InitPurity ==
    /\ build \in Builds
    /\ sfreq = MaxSfreq
    /\ registry = get_univariate_funcs(sfreq)
    /\ data \in PurityInputs
    /\ spectrum \in {sp \in PuritySpectra : Len(sp.ps) = Len(data)}
    /\ shared = [freq_bands |-> DefaultFreqBands]
    /\ call = NoCall
    /\ out = Ok(<<>>)
    /\ loc = [seen |-> <<>>, n |-> 0]

NextPurity == (\E name \in PurityNames : PurityCall(name)) \/ PurityReturn

SpecPurity == InitPurity /\ [][NextPurity]_vars

----------------------------------------------------------------------------
(* C12 *)

----------------------------------------------------------------------------
(* Sample entropy, statement by statement: the sweep of compute_samp_entropy over the
   outer index i, one channel after the other, with its arrays kept in loc *)

SampEntropyMm == 3

Zeros(n) == [j \in 1..n |-> 0]

\* (mutant) the else branch missing: a mismatch leaves run[jj] as it was
SampEntropyRow_NoReset(x_new, i, lastrun, run) ==
    [q \in 1..Len(run) |->
        IF q - 1 < Len(x_new) - i - 1 /\ SampEntropyMatch(x_new, i, q + i)
        THEN lastrun[q] + 1
        ELSE run[q]]

\* run after the loop over jj of the outer index i, nj = n_times - i - 1, j = jj + i + 1:
\* run[jj] = lastrun[jj] + 1 on a match, 0 otherwise; the entries from nj on are not
\* touched.  The sequences hold entry jj at position jj + 1.
SampEntropyRow(x_new, i, lastrun, run) ==
    [q \in 1..Len(run) |->
        IF q - 1 < Len(x_new) - i - 1
        THEN IF SampEntropyMatch(x_new, i, q + i) THEN lastrun[q] + 1 ELSE 0
        ELSE run[q]]

\* the jj of the outer index i that add one to a[k]: a match with k < m1 = min(mm, run[jj])
SampEntropyHits(x_new, i, run, k) ==
    {jj \in 0..(Len(x_new) - i - 2) :
        /\ SampEntropyMatch(x_new, i, jj + i + 1)
        /\ k < Min2(SampEntropyMm, run[jj + 1])}

\* those that add one to b[k] as well: j < n_times - 1
SampEntropyHitsB(x_new, i, run, k) ==
    {jj \in SampEntropyHits(x_new, i, run, k) : jj + i + 1 < Len(x_new) - 1}

\* for jj in range(nj): lastrun[jj] = run[jj]
SampEntropyCopy(n_times, i, lastrun, run) ==
    [q \in 1..Len(run) |-> IF q - 1 < n_times - i - 1 THEN run[q] ELSE lastrun[q]]

\* sampen[t] = -log(a[-1] / b[mm - 2]) from the counters of the sweep
SampEntropyEnd(mode, a, b) ==
    LET q == FDiv(RInt(a[SampEntropyMm]), RInt(b[SampEntropyMm - 1]))
    IN  IF mode = "nopython" /\ b[SampEntropyMm - 1] = 0 THEN Raise("ZeroDivisionError")
        ELSE IF mode = "python" /\ LogDomainError(q) THEN Raise("ValueError")
        ELSE Ok(FNeg(FLog(q)))

\* rich channels: samples far enough apart not to match, and close enough to
RichSignals == [1..(MaxLen + 2) -> {0, 1, 7}]

SampEntropyInputs == NonlinearInputs \cup {<<x>> : x \in RichSignals}

Running == [st |-> "running", exc |-> "", val |-> <<>>]

SampEntropyCall ==
    /\ Idle
    /\ "samp_entropy" \in DOMAIN registry
    /\ registry["samp_entropy"].func = "compute_samp_entropy"
    /\ call' = [name |-> "samp_entropy", args |-> <<>>]
    /\ out' = Running
    /\ loc' = [pc |-> "channel", t |-> 1, sampen |-> <<>>]
    /\ Frame

\* lines 327-343: m, s, x_new and the zeroed arrays of channel t
SampEntropyChannel ==
    LET x == data[loc.t]
        n_times == Len(x)
    IN  /\ call.name = "samp_entropy"
        /\ loc.pc = "channel"
        /\ IF JitMode(build) = "nopython" /\ SignOf(SampEntropyS(x)) = 0
           THEN /\ out' = Raise("ZeroDivisionError")
                /\ loc' = [pc |-> "done", t |-> loc.t, sampen |-> loc.sampen]
           ELSE /\ out' = out
                /\ loc' = [pc |-> "sweep", t |-> loc.t, sampen |-> loc.sampen,
                           x_new |-> SampEntropyXNew(x), i |-> 0,
                           lastrun |-> Zeros(n_times), run |-> Zeros(n_times),
                           a |-> Zeros(SampEntropyMm), b |-> Zeros(SampEntropyMm)]
        /\ UNCHANGED call
        /\ Frame

\* lines 345-358: one pass of the loop over i
SampEntropyStep ==
    LET n_times == Len(loc.x_new)
        run == SampEntropyRow(loc.x_new, loc.i, loc.lastrun, loc.run)
    IN  /\ call.name = "samp_entropy"
        /\ loc.pc = "sweep"
        /\ loc.i < n_times - 1
        /\ loc' = [loc EXCEPT
                     !.run = run,
                     !.a = [k \in 1..SampEntropyMm |->
                              @[k] + Cardinality(SampEntropyHits(loc.x_new, loc.i, run, k - 1))],
                     !.b = [k \in 1..SampEntropyMm |->
                              @[k] + Cardinality(SampEntropyHitsB(loc.x_new, loc.i, run, k - 1))],
                     !.lastrun = SampEntropyCopy(n_times, loc.i, loc.lastrun, run),
                     !.i = @ + 1]
        /\ UNCHANGED <<call, out>>
        /\ Frame

\* line 360, and the return of line 361 after the last channel
SampEntropyStore ==
    LET v == SampEntropyEnd(JitMode(build), loc.a, loc.b)
        sampen == Append(loc.sampen, v.val)
    IN  /\ call.name = "samp_entropy"
        /\ loc.pc = "sweep"
        /\ loc.i >= Len(loc.x_new) - 1
        /\ IF v.st = "raise"
           THEN /\ out' = v
                /\ loc' = [loc EXCEPT !.pc = "done"]
           ELSE IF loc.t = Len(data)
           THEN /\ out' = Ok(sampen)
                /\ loc' = [loc EXCEPT !.pc = "done", !.sampen = sampen]
           ELSE /\ out' = out
                /\ loc' = [pc |-> "channel", t |-> loc.t + 1, sampen |-> sampen]
        /\ UNCHANGED call
        /\ Frame

SampEntropyReturn ==
    /\ call.name = "samp_entropy"
    /\ loc.pc = "done"
    /\ Return

InitSampEntropy == InitWith(SampEntropyInputs, Builds, {MaxSfreq}, FlatSpectrum)

NextSampEntropy ==
    \/ SampEntropyCall
    \/ SampEntropyChannel
    \/ SampEntropyStep
    \/ SampEntropyStore
    \/ SampEntropyReturn

SpecSampEntropy == InitSampEntropy /\ [][NextSampEntropy]_vars

----------------------------------------------------------------------------
(* C13 *)

Sweeping == call.name = "samp_entropy" /\ loc.pc = "sweep"

\* the pair (i, j) matches at the k + 1 aligned positions (i - l, j - l), l = 0..k
MatchesBack(x_new, i, j, k) == \A l \in 0..k : SampEntropyMatch(x_new, i - l, j - l)

\* the pairs (i, j), k <= i < j <= last, of the outer indices below upto
TemplatePairs(x_new, k, upto, last) ==
    {p \in (0..(Len(x_new) - 1)) \X (0..(Len(x_new) - 1)) :
        /\ k <= p[1] /\ p[1] < p[2] /\ p[2] <= last
        /\ p[1] < upto
        /\ MatchesBack(x_new, p[1], p[2], k)}

\* the length of the run of matches on the diagonal that ends at (i, j)
DiagonalRun(x_new, i, j) ==
    Cardinality({len \in 1..(i + 1) : MatchesBack(x_new, i, j, len - 1)})

\* C13: at every step of the sweep a[k] is the number of pairs (i, j), k <= i < j <=
\* n_times - 1, of the outer indices done so far that match at the k + 1 aligned positions
\* (i - l, j - l), b[k] the number of those with j < n_times - 1, so b[k] <= a[k] and
\* a[0] >= a[1] >= a[2]; the run length carried to the next i for j is the length of the
\* diagonal run ending at (i - 1, j - 1).
C13_CountersCountTemplatePairs ==
    Sweeping =>
        LET x_new == loc.x_new
            n_times == Len(x_new)
        IN  /\ \A k \in 0..(SampEntropyMm - 1) :
                 /\ loc.a[k + 1] = Cardinality(TemplatePairs(x_new, k, loc.i, n_times - 1))
                 /\ loc.b[k + 1] = Cardinality(TemplatePairs(x_new, k, loc.i, n_times - 2))
                 /\ loc.b[k + 1] <= loc.a[k + 1]
            /\ loc.a[1] >= loc.a[2]
            /\ loc.a[2] >= loc.a[3]
            /\ loc.i >= 1 =>
                 \A j \in (loc.i + 1)..(n_times - 1) :
                    loc.lastrun[j - loc.i] = DiagonalRun(x_new, loc.i - 1, j - 1)

\* the sweep is done on a channel with samples that match without being equal, runs of
\* three and more, a run cut by a mismatch, and a last column that only a counts
C13_Witness ==
    /\ Sweeping
    /\ loc.i = Len(loc.x_new) - 1
    /\ loc.a[3] >= 1
    /\ loc.b[3] < loc.a[3]
    /\ loc.a[1] > loc.a[2]
    /\ loc.a[2] > loc.a[3]
    /\ \E i \in 1..Len(loc.x_new), j \in 1..Len(loc.x_new) :
          /\ loc.x_new[i] # loc.x_new[j]
          /\ SampEntropyMatch(loc.x_new, i - 1, j - 1)

\* the value the sweep returns is the value of the closed form of the kernel
SampEntropySweepAgrees ==
    (call.name = "samp_entropy" /\ loc.pc = "done") => out = compute_samp_entropy(build, data)

----------------------------------------------------------------------------
(* C14 *)

\* the (k, m) the loops of compute_higuchi_fd visit
HiguchiOffsets(kmax) == {p \in (1..kmax) \X (0..(kmax - 1)) : p[2] < p[1]}

\* every sample index the curve-length sums read lies in 0..n_times - 1
HiguchiReadsInRange ==
    HiguchiCalled =>
        \A p \in HiguchiOffsets(loc.kmax) :
            HiguchiReads(NTimes, p[1], p[2]) \subseteq 0..(NTimes - 1)

\* from n_times >= 2 * kmax on, every segment count is at least 1
HiguchiSegmentsFromTwiceKmax ==
    (HiguchiCalled /\ NTimes >= 2 * loc.kmax) =>
        \A p \in HiguchiOffsets(loc.kmax) : HiguchiNMax(NTimes, p[1], p[2]) >= 1

\* C14: whenever n_times > kmax, for every k in 1..kmax and m in 0..k-1 the segment
\* count n_max = floor((n_times - 1 - m) / k) is at least 1, so the division by
\* k * n_max does not raise, and every sample index read lies in 0..n_times - 1.
C14_HiguchiWellDefined ==
    (HiguchiCalled /\ NTimes > loc.kmax) =>
        /\ \A p \in HiguchiOffsets(loc.kmax) :
              /\ HiguchiNMax(NTimes, p[1], p[2]) >= 1
              /\ HiguchiReads(NTimes, p[1], p[2]) \subseteq 0..(NTimes - 1)
        /\ \A s \in 1..Len(data), k \in 1..loc.kmax :
              HiguchiPass(loc.mode, data[s], k) # Raise("ZeroDivisionError")

----------------------------------------------------------------------------
(* Approximate entropy, statement by statement: the sweep of compute_app_entropy over the
   outer index i, one channel after the other, with a, b and p kept in loc *)

\* the j of the inner loop of the outer index i: range(i + 1, n_times - 3)
AppEntropyInner(n_times, i) == (i + 1)..(n_times - 4)

\* the sample indices the pass of the outer index i reads
AppEntropyReads(n_times, i) ==
    UNION {{i, i + 1, i + 2, j, j + 1, j + 2} : j \in AppEntropyInner(n_times, i)}

\* what the pass adds to a: the j with da < r
AppEntropyIncA(x, r, i) ==
    Cardinality({j \in AppEntropyInner(Len(x), i) : AppEntropyMatchA(x, r, <<i, j>>)})

\* (mutant) the test of d3 moved out of the test of da
AppEntropyIncB_Unnested(x, r, i) ==
    Cardinality({j \in AppEntropyInner(Len(x), i) : AppEntropyMatchB(x, r, <<i, j>>)})

\* what the pass adds to b: the j with da < r and d3 < r
AppEntropyIncB(x, r, i) ==
    Cardinality({j \in AppEntropyInner(Len(x), i) :
                    AppEntropyMatchA(x, r, <<i, j>>) /\ AppEntropyMatchB(x, r, <<i, j>>)})

\* if (a > 0) and (b > 0): p += log(float(b) / float(a))
AppEntropyLog(a, b) == IF a > 0 /\ b > 0 THEN FLog(Rat(b, a)) ELSE RInt(0)

AppEntropyInputs == NonlinearInputs \cup {<<x>> : x \in RichSignals}

AppEntropyCall ==
    /\ Idle
    /\ "app_entropy" \in DOMAIN registry
    /\ registry["app_entropy"].func = "compute_app_entropy"
    /\ call' = [name |-> "app_entropy", args |-> <<>>]
    /\ out' = Running
    /\ loc' = [pc |-> "channel", t |-> 1, appen |-> <<>>]
    /\ Frame

\* lines 276-284: s, r and the zeroed p, a and b of channel t
AppEntropyChannel ==
    LET x == data[loc.t]
        s == AppEntropyS(JitMode(build), x)
    IN  /\ call.name = "app_entropy"
        /\ loc.pc = "channel"
        /\ IF s.st = "raise"
           THEN /\ out' = s
                /\ loc' = [pc |-> "done", t |-> loc.t, appen |-> loc.appen]
           ELSE /\ out' = out
                /\ loc' = [pc |-> "sweep", t |-> loc.t, appen |-> loc.appen,
                           x |-> x, r |-> AppEntropyR(s.val), i |-> 0,
                           a |-> 0, b |-> 0, p |-> RInt(0), pi |-> RInt(0), reads |-> {}]
        /\ UNCHANGED call
        /\ Frame

\* lines 285-300: one pass of the loop over i
AppEntropyStep ==
    LET a == loc.a + AppEntropyIncA(loc.x, loc.r, loc.i)
        b == loc.b + AppEntropyIncB(loc.x, loc.r, loc.i)
    IN  /\ call.name = "app_entropy"
        /\ loc.pc = "sweep"
        /\ loc.i < Len(loc.x) - 2
        /\ loc' = [loc EXCEPT !.a = a, !.b = b,
                              !.pi = AppEntropyLog(a, b),
                              !.p = FAdd(@, AppEntropyLog(a, b)),
                              !.reads = AppEntropyReads(Len(loc.x), loc.i),
                              !.i = @ + 1]
        /\ UNCHANGED <<call, out>>
        /\ Frame

\* line 301, and the return of line 302 after the last channel
AppEntropyStore ==
    LET n_times == Len(loc.x)
        appen == Append(loc.appen, FMul(FMul(RInt(-2), loc.p), Rat(1, n_times - 2)))
    IN  /\ call.name = "app_entropy"
        /\ loc.pc = "sweep"
        /\ loc.i >= n_times - 2
        /\ IF n_times = 2
           THEN /\ out' = Raise("ZeroDivisionError")
                /\ loc' = [loc EXCEPT !.pc = "done"]
           ELSE IF loc.t = Len(data)
           THEN /\ out' = Ok(appen)
                /\ loc' = [loc EXCEPT !.pc = "done", !.appen = appen]
           ELSE /\ out' = out
                /\ loc' = [pc |-> "channel", t |-> loc.t + 1, appen |-> appen]
        /\ UNCHANGED call
        /\ Frame

AppEntropyReturn ==
    /\ call.name = "app_entropy"
    /\ loc.pc = "done"
    /\ Return

InitAppEntropy == InitWith(AppEntropyInputs, Builds, {MaxSfreq}, FlatSpectrum)

NextAppEntropy ==
    \/ AppEntropyCall
    \/ AppEntropyChannel
    \/ AppEntropyStep
    \/ AppEntropyStore
    \/ AppEntropyReturn

SpecAppEntropy == InitAppEntropy /\ [][NextAppEntropy]_vars

----------------------------------------------------------------------------
(* C15 *)

AppSweeping == call.name = "app_entropy" /\ loc.pc = "sweep"

\* a pass of the sweep of a channel
AppEntropyPass == AppSweeping /\ call' = call /\ loc'.pc = "sweep" /\ loc'.i = loc.i + 1

\* the value the sweep returns is the value of the closed form of the kernel
AppEntropySweepAgrees ==
    (call.name = "app_entropy" /\ loc.pc = "done") => out = compute_app_entropy(build, data)

\* C15: a and b are zero when the sweep of a channel begins and no pass of the sweep
\* lowers them; throughout the sweep 0 <= b <= a, every sample index read lies in
\* 0..n_times - 1 and every term added to p is <= 0; the value returned for a channel
\* is >= 0.
C15_CountsGrowAndEntropyNonNegative ==
    /\ [](AppSweeping =>
            /\ loc.i = 0 => (loc.a = 0 /\ loc.b = 0)
            /\ 0 <= loc.b
            /\ loc.b <= loc.a
            /\ loc.reads \subseteq 0..(Len(loc.x) - 1)
            /\ SignOf(loc.pi) \in {-1, 0}
            /\ SignOf(loc.p) \in {-1, 0})
    /\ []((call.name = "app_entropy" /\ out.st = "ok") =>
            \A t \in 1..Len(out.val) : SignOf(out.val[t]) \in {0, 1})
    /\ [][AppEntropyPass => (loc'.a >= loc.a /\ loc'.b >= loc.b)]_vars

\* the second pass has raised an a that was above zero already, b stays below a, the pass
\* read samples up to the one before the last and added a negative term to p
C15_Witness ==
    /\ AppSweeping
    /\ loc.i = 2
    /\ loc.a >= 3
    /\ loc.b >= 1
    /\ loc.b < loc.a
    /\ SignOf(loc.pi) = -1
    /\ Len(loc.x) - 2 \in loc.reads

\* a channel returned with a positive entropy
AppEntropyPositive ==
    /\ call.name = "app_entropy"
    /\ out.st = "ok"
    /\ \E t \in 1..Len(out.val) : SignOf(out.val[t]) = 1

====
